---- MODULE Spec2Model ----
(***************************************************************************)
(* BeastClipper (src/stream.py): the live-stream segment buffer            *)
(* (StreamBuffer), its watchdog (check_health) and the clip extractor      *)
(* (ClipCreator), as a state machine.                                      *)
(*                                                                         *)
(* Time is the wall clock time.time(), in seconds, advanced by Tick.       *)
(* A segment is a record [index, timestamp]; its file is                   *)
(* segment_<index>.ts, so the disk is the set of indices whose file        *)
(* exists, and its duration is segment_length.                             *)
(***************************************************************************)
EXTENDS Integers, Sequences, FiniteSets, TLC

VARIABLES
    buffer_duration,     \* StreamBuffer.buffer_duration (configured at construction)
    segment_length,      \* StreamBuffer.segment_length  (configured at construction)
    running,             \* StreamBuffer.running
    segments,            \* StreamBuffer.segments (deque), front = element 1
    disk,                \* indices i whose file segment_i.ts exists in temp_dir
    remove_errors,       \* indices whose os.remove failed in _prune_old_segments (logged)
    consecutive_errors,  \* StreamBuffer.consecutive_errors
    last_activity,       \* StreamBuffer.last_activity
    now,                 \* time.time()
    wd_timer,            \* watchdog_timer: "stopped", "waiting" or "timeout" (a timeout is due)
    run_pc,              \* position of the QThread executing StreamBuffer.run
    rec_pc,              \* position of recorder_thread executing _buffer_loop
    segment_index,       \* _buffer_loop's local segment_index
    errors,              \* error_occurred events emitted by the StreamBuffer, in order
    stall_warnings,      \* number of "Buffer appears to be stalled" warnings logged
    failed_captures,     \* capture attempts that failed since the last successful one
    clip_pc,             \* position of the ClipCreator thread
    clip_req,            \* ClipCreator.start_time_ago, ClipCreator.duration
    clip_segments,       \* ClipCreator.run's local segments
    manifest,            \* the clip_list_<t>.txt file list exists
    ffmpeg_started,      \* ClipCreator.run has launched FFmpeg (Popen)
    output,              \* size in bytes of the file at output_path, -1 = no file
    clip_events,         \* clip_created / error_occurred events emitted by the ClipCreator
    clip_rc,             \* ClipCreator.run's local return_code, -1 = FFmpeg has not ended
    stop_calls,          \* number of calls of StreamBuffer.stop so far (up to MaxStops)
    segment_lock,        \* holder of StreamBuffer.segment_lock: "none" or "recorder"
    status,              \* the main window's last get_buffer_status() result
    stream_status,       \* StreamMonitor.stream_status: URL -> "none" (no key), "live", "offline"
    monitor_running,     \* StreamMonitor.running
    monitor_pc,          \* position of StreamMonitor.run, i = index in monitored_streams
    probe,               \* the last _check_stream_status call: its number, URL, result,
                         \* whether the query failed, and the status known before it
    monitor_events,      \* stream_live / stream_offline events emitted by the StreamMonitor
    recorded_errors,     \* failed captures and stalled ticks counted since the last
                         \* successful capture (or the start of run)
    capture,             \* the _record_segment call of this iteration: when it began,
                         \* its return value and the size of its file (-1 = no file)
    loaded,              \* the value of consecutive_errors read by a "+= 1" that has
                         \* not stored yet, per thread (-1 = none)
    run_status,          \* the last text emitted through StreamBuffer.status_update
    temp_files,          \* TempFileManager.temp_files: buffer directory -> expiry time
                         \* (-1 = not registered)
    on_disk,             \* the buffer directories (with their segment files) that exist
    mutex,               \* holder of TempFileManager.mutex: "free" or "timer"
    cleanup_pc,          \* position of the cleanup timer's thread in cleanup_task, and
                         \* the expired paths cleanup_expired_files still has to visit
    teardown,            \* per session (= buffer directory): "idle", "buffering",
                         \* "cleanup" (in _cleanup, before register_temp_file) or "registered"
    rmtree_failed,       \* the directories whose shutil.rmtree has raised
    temp_dir,            \* StreamBuffer.temp_dir, a path as a sequence of characters
    creators,            \* per ClipCreator: the position of run, start_time_ago, run's
                         \* local segments and file_list_path (-1 = not yet set),
                         \* self.process ("none" or "handle"), the state of its FFmpeg
                         \* process, the file list FFmpeg has read, the events emitted
    file_lists,          \* clip_list_<t>.txt in temp_dir, per t: whether it exists, its
                         \* lines and the ClipCreator that wrote it last
    stops,               \* per ClipCreator: the position of a call of stop()
    watch,               \* a StreamMonitor whose list changes: monitored_streams,
                         \* stream_status, the position of run (the index of the for
                         \* loop's iterator, its stream_url), the events emitted, the
                         \* URLs remove_stream was called with since they were last
                         \* added, and the number of add_stream / remove_stream calls
    attempt,             \* one call of _record_segment: its position, the outcome of
                         \* the capture tool, the invocations tried, the fallback
                         \* process, the size of the output file, the return value
    encode               \* the progress loop of one ClipCreator.run: its position,
                         \* self.duration, progress_found, the values emitted through
                         \* progress_update, the number of lines read, the events

session_vars == <<buffer_duration, segment_length, running, segments, disk,
                  remove_errors, consecutive_errors, last_activity, wd_timer,
                  run_pc, rec_pc, segment_index, errors, stall_warnings,
                  failed_captures, stop_calls, segment_lock, recorded_errors>>
clip_vars == <<clip_pc, clip_req, clip_segments, manifest, ffmpeg_started,
               output, clip_events, clip_rc>>
monitor_vars == <<stream_status, monitor_running, monitor_pc, probe, monitor_events>>
call_vars == <<capture, loaded>>
temp_vars == <<temp_files, on_disk, mutex, cleanup_pc, teardown, rmtree_failed>>
creator_vars == <<temp_dir, creators, file_lists, stops>>
base_vars == <<session_vars, clip_vars, status, monitor_vars, call_vars, run_status>>
aux_vars == <<temp_vars, creator_vars, watch, attempt, encode>>
vars == <<session_vars, now, clip_vars, status, monitor_vars, call_vars, run_status,
          aux_vars>>

(***************************************************************************)
(* Program constants.                                                      *)
(***************************************************************************)
max_errors == 3
StallSeconds == 30
WatchdogInterval == 5
MinSegmentBytes == 1000
MinClipBytes == 10000
TempLifetime == 3600       \* _cleanup: register_temp_file(self.temp_dir, lifetime=3600)
CleanupInterval == 60      \* cleanup_settings.cleanup_interval

(***************************************************************************)
(* Bounds of the model.                                                    *)
(***************************************************************************)
MaxClipTime == 10      \* the clock stops here in ClipSpec
MaxTime == 45          \* the clock stops here
TickStep == 5          \* granularity of the clock
MaxSegments == 4       \* capture attempts start only for indices below this
MaxStops == 2          \* calls of StreamBuffer.stop are counted up to this

MaxProbes == 6         \* _check_stream_status is called at most this often
MaxTempTime == 3780    \* the clock stops here in TempSpec
MaxStopTime == 120     \* sessions are stopped up to this time in TempSpec

\* StreamMonitor.monitored_streams: a bare channel name and a full URL
\* (full: the text contains "twitch.tv").
monitored_streams == <<[name |-> "a", full |-> FALSE], [name |-> "b", full |-> TRUE]>>

\* run(): a stream without "twitch.tv" becomes https://twitch.tv/<stream>.
normalise(stream_url) == [name |-> stream_url.name, full |-> TRUE]

\* The keys stream_status can have.
Sources == {normalise(monitored_streams[i]) : i \in 1 .. Len(monitored_streams)}
NoProbe == [n |-> 0, source |-> [name |-> "", full |-> TRUE], is_live |-> FALSE,
            failed |-> FALSE, was |-> "none"]
NoStatus == [segments |-> -1, duration |-> -1, max_duration |-> -1]

\* <<buffer_duration, segment_length>> of a session: three segments fit
\* exactly, two fit with a remainder, none fits.
Configs == {<<30, 10>>, <<25, 10>>, <<10, 15>>}
StartAgos == {5, 15}
Durations == {10}
FileSizes == {MinSegmentBytes, MinSegmentBytes + 1}
ClipSizes == {MinClipBytes, MinClipBytes + 1}

(***************************************************************************)
(* StreamBuffer: the segment store.                                        *)
(***************************************************************************)
get_buffer_duration(segs) == Len(segs) * segment_length

\* Variant of append_segment: the new segment goes to the front (appendleft).
appendleft_segment(segs, idx, t) == <<[index |-> idx, timestamp |-> t]>> \o segs

\* The deque append of _buffer_loop: the new segment goes to the back.
append_segment(segs, idx, t) == Append(segs, [index |-> idx, timestamp |-> t])

\* Variant of prune_continue: the segment count is compared, not the duration.
prune_continue_count(segs) == Len(segs) > buffer_duration

\* Variant of prune_continue: a full buffer already evicts.
prune_continue_ge(segs) == get_buffer_duration(segs) >= buffer_duration

\* The loop condition of _prune_old_segments.
prune_continue(segs) == get_buffer_duration(segs) > buffer_duration

\* Variant of os_remove: the popped segment's file is never removed.
os_remove_skip(files, idx, failing) == files

\* os.path.exists and os.remove on the popped segment's file; with failing,
\* os.remove raises (the error is logged, the file stays).
os_remove(files, idx, failing) ==
    IF idx \in files /\ ~failing THEN files \ {idx} ELSE files

\* _prune_old_segments on store segs and disk files; failing: os.remove raises
\* in this call.  Result: the store, the disk and the indices whose removal
\* failed.

RECURSIVE prune_old_segments(_, _, _)
prune_old_segments(segs, files, failing) ==
    IF segs # <<>> /\ prune_continue(segs)
    THEN LET old == Head(segs)
             rest == prune_old_segments(Tail(segs),
                                        os_remove(files, old.index, failing),
                                        failing)
         IN  [segs  |-> rest.segs,
              files |-> rest.files,
              failed |-> rest.failed \cup
                         (IF old.index \in files /\ failing
                          THEN {old.index} ELSE {})]
    ELSE [segs |-> segs, files |-> files, failed |-> {}]

(***************************************************************************)
(* StreamBuffer._record_segment.  An outcome o of the external capture     *)
(* tool: timeout (subprocess.run raised TimeoutExpired), rc (its return    *)
(* code), size1 (bytes of the output file after it, -1 = no file),         *)
(* unrecognized (stderr has "error: unrecognized arguments"), size2 (the   *)
(* file after the start-then-terminate fallback), wait_raises (terminate   *)
(* or wait raised in the fallback).  Result: the return value and the      *)
(* output file left behind.                                                *)
(***************************************************************************)
RecordOutcomes ==
    [timeout : BOOLEAN, rc : {0, 1}, size1 : {-1} \cup FileSizes,
     unrecognized : BOOLEAN, size2 : {-1} \cup FileSizes, wait_raises : BOOLEAN]

record_segment(o) ==
    IF o.timeout
    THEN [ok |-> FALSE, size |-> o.size1]
    ELSE IF o.rc = 0 /\ o.size1 >= 0 /\ o.size1 > MinSegmentBytes
    THEN [ok |-> TRUE, size |-> o.size1]
    ELSE IF o.unrecognized
    THEN IF ~o.wait_raises /\ o.size2 >= 0 /\ o.size2 > MinSegmentBytes
         THEN [ok |-> TRUE, size |-> o.size2]
         ELSE [ok |-> FALSE, size |-> o.size2]
    ELSE [ok |-> FALSE, size |-> o.size1]

\* Variant of segment_ok: any file in the slot is taken for a segment.
segment_ok_any_file(r) == r.size >= 0

\* The test of _buffer_loop on the capture's result.
segment_ok(r) == r.ok /\ r.size >= 0 /\ r.size > MinSegmentBytes

RecordResults == {record_segment(o) : o \in RecordOutcomes}

(***************************************************************************)
(* StreamBuffer.get_segments_for_clip: the scan of the deque, then the     *)
(* (stable) sort by timestamp.                                             *)
(***************************************************************************)
\* Variants of in_clip_range: exclusive bounds; the window after
\* start_time_ago instead of before it; no lower bound.
in_clip_range_strict(age, start_time_ago, duration) ==
    age < start_time_ago /\ age > (start_time_ago - duration)

in_clip_range_after(age, start_time_ago, duration) ==
    age >= start_time_ago /\ age <= (start_time_ago + duration)

in_clip_range_no_lower(age, start_time_ago, duration) ==
    age <= start_time_ago

\* The test of get_segments_for_clip on a segment's age.
in_clip_range(age, start_time_ago, duration) ==
    age <= start_time_ago /\ age >= (start_time_ago - duration)

RECURSIVE insert_by_timestamp(_, _)
insert_by_timestamp(sorted, s) ==
    IF sorted = <<>> THEN <<s>>
    ELSE IF sorted[Len(sorted)].timestamp <= s.timestamp THEN Append(sorted, s)
    ELSE Append(insert_by_timestamp(SubSeq(sorted, 1, Len(sorted) - 1), s),
                sorted[Len(sorted)])

RECURSIVE sort_by_timestamp(_)
sort_by_timestamp(seq) ==
    IF seq = <<>> THEN <<>>
    ELSE insert_by_timestamp(sort_by_timestamp(SubSeq(seq, 1, Len(seq) - 1)),
                             seq[Len(seq)])

RECURSIVE scan_segments(_, _, _, _)
scan_segments(segs, current_time, start_time_ago, duration) ==
    IF segs = <<>> THEN <<>>
    ELSE LET segment_age == current_time - Head(segs).timestamp
             rest == scan_segments(Tail(segs), current_time, start_time_ago, duration)
         IN  IF in_clip_range(segment_age, start_time_ago, duration)
             THEN <<Head(segs)>> \o rest
             ELSE rest

get_segments_for_clip(segs, current_time, start_time_ago, duration) ==
    IF segs = <<>> THEN <<>>
    ELSE sort_by_timestamp(scan_segments(segs, current_time, start_time_ago, duration))

(***************************************************************************)
(* The state after construction (StreamBuffer.__init__, ClipCreator not    *)
(* yet created).                                                           *)
(***************************************************************************)
ClipInit ==
    /\ clip_pc = "idle"
    /\ clip_req = [start_time_ago |-> 0, duration |-> 0]
    /\ clip_segments = <<>>
    /\ manifest = FALSE
    /\ ffmpeg_started = FALSE
    /\ output = -1
    /\ clip_events = <<>>
    /\ clip_rc = -1

\* No capture call has begun and no "+= 1" is between its read and its store.
NoCapture == [began |-> -1, ok |-> FALSE, size |-> -1]
NoCalls ==
    /\ capture = NoCapture
    /\ loaded = [rec |-> -1, wd |-> -1]

\* Nothing has been emitted through status_update.
TempDirs == {1, 2}

\* TempFileManager.__init__ with auto_cleanup_enabled: nothing registered,
\* the first cleanup timer started; no session has been created.
TempInit ==
    /\ temp_files = [d \in TempDirs |-> -1]
    /\ on_disk = {}
    /\ mutex = "free"
    /\ cleanup_pc = [at |-> "waiting", expired |-> <<>>]
    /\ teardown = [d \in TempDirs |-> "idle"]
    /\ rmtree_failed = {}

\* The ClipCreator objects the main window can create while a session runs.
Creators == {1, 2}
MaxCreatorTime == 31   \* ClipCreators run up to this time in CreatorSpec

\* The values of temp_dir (it lies below the user's home directory): a plain
\* path, one with a backslash, one with a quote, one with both.
BufferDirPaths == {<<"t">>, <<"t", "\\", "b">>, <<"o", "'", "b">>, <<"\\", "'">>}

NoFileList == [exists |-> FALSE, lines |-> <<>>, writer |-> 0]
NoCreator == [pc |-> "idle", start_time_ago |-> 0, segments |-> <<>>,
              file_list_path |-> -1, process |-> "none", child |-> "none",
              read |-> NoFileList, events |-> <<>>]

\* No ClipCreator has been created; the session's directory is one of paths.
CreatorInit(paths) ==
    /\ temp_dir \in paths
    /\ creators = [c \in Creators |-> NoCreator]
    /\ file_lists = [t \in 0 .. MaxCreatorTime |-> NoFileList]
    /\ stops = [c \in Creators |-> "idle"]

\* A StreamMonitor constructed with the list lst from the configuration.
WatchInit(lst) ==
    watch = [monitored_streams |-> lst,
             stream_status |-> [u \in Sources |-> "none"],
             pc |-> [at |-> "idle", i |-> 0, stream_url |-> NoProbe.source],
             events |-> <<>>, removed |-> {}, calls |-> 0, probes |-> 0]

\* _record_segment has not been called.
NoAttempt == [pc |-> "idle", o |-> CHOOSE o \in RecordOutcomes : TRUE,
              tried |-> <<>>, proc |-> "none", size |-> -1, result |-> "none"]

\* No ClipCreator has reached its progress loop.
NoEncode == [pc |-> "idle", duration |-> 0, progress_found |-> FALSE,
             progress |-> <<>>, lines |-> 0, events |-> <<>>]

AuxInit ==
    /\ run_status = "none"
    /\ TempInit
    /\ CreatorInit({<<"t">>})
    /\ WatchInit(monitored_streams)
    /\ attempt = NoAttempt
    /\ encode = NoEncode

\* StreamMonitor.__init__, before its thread runs; no status snapshot taken.
MonitorIdle ==
    /\ stream_status = [u \in Sources |-> "none"]
    /\ monitor_running = FALSE
    /\ monitor_pc = [at |-> "idle", i |-> 0]
    /\ probe = NoProbe
    /\ monitor_events = <<>>

CoreInit ==
    /\ \E c \in Configs : buffer_duration = c[1] /\ segment_length = c[2]
    /\ running = FALSE
    /\ segments = <<>>
    /\ disk = {}
    /\ remove_errors = {}
    /\ consecutive_errors = 0
    /\ now = 0
    /\ last_activity = 0
    /\ wd_timer = "stopped"
    /\ run_pc = "idle"
    /\ rec_pc = "none"
    /\ segment_index = 0
    /\ errors = <<>>
    /\ stall_warnings = 0
    /\ failed_captures = 0
    /\ stop_calls = 0
    /\ segment_lock = "none"
    /\ recorded_errors = 0
    /\ status = NoStatus
    /\ ClipInit
    /\ MonitorIdle
    /\ NoCalls

Init ==
    /\ CoreInit
    /\ AuxInit

(***************************************************************************)
(* The clock.                                                              *)
(***************************************************************************)
\* TickStep seconds pass; a started watchdog timer reaches its next timeout.
TickUpTo(limit) ==
    /\ now + TickStep <= limit
    /\ now' = now + TickStep
    /\ wd_timer' = IF wd_timer = "stopped" \/ TickStep < WatchdogInterval
                   THEN wd_timer ELSE "timeout"
    /\ UNCHANGED <<buffer_duration, segment_length, running, segments, disk,
                   remove_errors, consecutive_errors, last_activity, run_pc,
                   rec_pc, segment_index, errors, stall_warnings, failed_captures, recorded_errors,
                   clip_vars, stop_calls, segment_lock, status, monitor_vars, call_vars, run_status, aux_vars>>

Tick == TickUpTo(MaxTime)

(***************************************************************************)
(* StreamBuffer.stop and the tail of StreamBuffer.run.                     *)
(***************************************************************************)
\* Variant of stop_effect: the running flag is toggled.
stop_effect_toggle ==
    /\ running' = ~running
    /\ wd_timer' = "stopped"

\* stop(): self.process is never assigned, so nothing is terminated.
stop_effect ==
    /\ running' = FALSE
    /\ wd_timer' = "stopped"

\* Variant of run_finally: run returns without its finally block.
run_finally_skipped ==
    /\ run_pc' = "finished"
    /\ UNCHANGED <<running, wd_timer, run_status>>

\* The finally block of run: running = False, _cleanup, watchdog stop, the
\* status "Buffer stopped".
run_finally ==
    /\ running' = FALSE
    /\ wd_timer' = "stopped"
    /\ run_status' = "stopped"
    /\ run_pc' = "finished"

\* QThread.start(), from toggle_buffer.
Start ==
    /\ run_pc = "idle"
    /\ run_pc' = "queued"
    /\ UNCHANGED <<buffer_duration, segment_length, running, segments, disk,
                   remove_errors, consecutive_errors, last_activity, wd_timer,
                   rec_pc, segment_index, errors, stall_warnings, failed_captures, recorded_errors,
                   now, clip_vars,
                   stop_calls, segment_lock, status, monitor_vars, call_vars, run_status, aux_vars>>

\* run(): the first statements, up to the start of the watchdog timer.
RunBegin ==
    /\ run_pc = "queued"
    /\ running' = TRUE
    /\ consecutive_errors' = 0
    /\ recorded_errors' = 0
    /\ last_activity' = now
    /\ wd_timer' = "waiting"
    /\ run_pc' = "validate"
    /\ run_status' = "checking"
    /\ UNCHANGED <<buffer_duration, segment_length, segments, disk, remove_errors,
                   rec_pc, segment_index, errors, stall_warnings, failed_captures,
                   now, clip_vars,
                   stop_calls, segment_lock, status, monitor_vars, call_vars, aux_vars>>

\* run(): _validate_stream returned False: the error, then the finally block.
RunValidateFail ==
    /\ run_pc = "validate"
    /\ errors' = Append(errors, "offline")
    /\ run_finally
    /\ UNCHANGED <<buffer_duration, segment_length, segments, disk, remove_errors,
                   consecutive_errors, last_activity, rec_pc, segment_index,
                   stall_warnings, failed_captures, recorded_errors, now, clip_vars,
                   stop_calls, segment_lock, status, monitor_vars, call_vars, aux_vars>>

\* run(): the stream is live: the recorder thread is started with segment_index 0.
RunValidateOk ==
    /\ run_pc = "validate"
    /\ run_pc' = "monitor"
    /\ rec_pc' = "top"
    /\ segment_index' = 0
    /\ run_status' = "starting"
    /\ UNCHANGED <<buffer_duration, segment_length, running, segments, disk,
                   remove_errors, consecutive_errors, last_activity, wd_timer,
                   errors, stall_warnings, failed_captures, recorded_errors, now, clip_vars,
                   stop_calls, segment_lock, status, monitor_vars, call_vars, aux_vars>>

\* run(): the loop "while self.running: sleep" ends, then the finally block.
RunMonitorExit ==
    /\ run_pc = "monitor"
    /\ ~running
    /\ run_finally
    /\ UNCHANGED <<buffer_duration, segment_length, segments, disk, remove_errors,
                   consecutive_errors, last_activity, rec_pc, segment_index, errors,
                   stall_warnings, failed_captures, recorded_errors, now, clip_vars,
                   stop_calls, segment_lock, status, monitor_vars, call_vars, aux_vars>>

\* stop(), called by the user interface.
Stop ==
    /\ run_pc # "idle"
    /\ stop_effect
    /\ stop_calls' = IF stop_calls < MaxStops THEN stop_calls + 1 ELSE stop_calls
    /\ UNCHANGED <<buffer_duration, segment_length, segments, disk, remove_errors,
                   consecutive_errors, last_activity, run_pc, rec_pc, segment_index,
                   errors, stall_warnings, failed_captures, recorded_errors, now, clip_vars,
                   segment_lock, status, monitor_vars, call_vars, run_status, aux_vars>>

(***************************************************************************)
(* StreamBuffer._buffer_loop, run by recorder_thread.                      *)
(***************************************************************************)
\* "while self.running": the next capture call starts, or the loop ends.
BufferLoopTop ==
    /\ rec_pc = "top"
    /\ IF running
       THEN /\ segment_index < MaxSegments
            /\ rec_pc' = "recording"
       ELSE rec_pc' = "exited"
    /\ UNCHANGED <<buffer_duration, segment_length, running, segments, disk,
                   remove_errors, consecutive_errors, last_activity, wd_timer,
                   run_pc, segment_index, errors, stall_warnings, failed_captures, recorded_errors,
                   now, clip_vars,
                   stop_calls, segment_lock, status, monitor_vars, call_vars, run_status, aux_vars>>

\* Variant of index_after_success: an index is skipped.
index_after_success_skip(idx) == idx + 2

\* "segment_index += 1" at the end of the successful branch.
index_after_success(idx) == idx + 1

\* The status text of every fifth segment ("Buffering: ...").
status_after_push(idx, text) == IF idx % 5 = 0 THEN "buffering" ELSE text

\* The successful branch: heartbeat, push under segment_lock (append, then
\* _prune_old_segments), counter reset, next index.
success_branch(failing) ==
    LET p == prune_old_segments(append_segment(segments, segment_index, now),
                                disk \cup {segment_index}, failing)
    IN  /\ last_activity' = now
        /\ segments' = p.segs
        /\ disk' = p.files
        /\ remove_errors' = remove_errors \cup p.failed
        /\ consecutive_errors' = 0
        /\ failed_captures' = 0
        /\ recorded_errors' = 0
        /\ run_status' = status_after_push(segment_index, run_status)
        /\ segment_index' = index_after_success(segment_index)
        /\ rec_pc' = "top"

\* The capture call returned a usable file: the successful branch.
BufferLoopSuccess ==
    /\ rec_pc = "recording"
    /\ \E r \in RecordResults, failing \in BOOLEAN :
         /\ segment_ok(r)
         /\ success_branch(failing)
    /\ UNCHANGED <<buffer_duration, segment_length, running, wd_timer, run_pc,
                   errors, stall_warnings, now, clip_vars,
                   stop_calls, segment_lock, status, monitor_vars, call_vars, aux_vars>>

\* Variant of loop_abort: one more failure is tolerated.
loop_abort_late(count) == count > max_errors

\* The capture loop's test of the counter after its increment.
loop_abort(count) == count >= max_errors

\* The failing branch after the counter's new value count is stored: the
\* fatal error and the end of the loop, or the back-off and the retry of
\* the same index.
abort_or_retry(count) ==
    IF loop_abort(count)
    THEN /\ errors' = Append(errors, "ended")
         /\ rec_pc' = "exited"
    ELSE /\ errors' = errors
         /\ rec_pc' = "top"

\* The file segment_<index>.ts after a capture call that left size bytes
\* (-1: none; streamlink --force overwrites what was there).
file_after_capture(files, idx, size) ==
    IF size >= 0 THEN files \cup {idx} ELSE files \ {idx}

\* The capture call failed: the failing branch.
BufferLoopFailure ==
    /\ rec_pc = "recording"
    /\ \E r \in RecordResults :
             /\ ~segment_ok(r)
             /\ disk' = file_after_capture(disk, segment_index, r.size)
    /\ consecutive_errors' = consecutive_errors + 1
    /\ recorded_errors' = recorded_errors + 1
    /\ failed_captures' = failed_captures + 1
    /\ abort_or_retry(consecutive_errors')
    /\ UNCHANGED <<buffer_duration, segment_length, running, segments,
                   remove_errors, last_activity, wd_timer, run_pc, segment_index,
                   stall_warnings, now, clip_vars,
                   stop_calls, segment_lock, status, monitor_vars, call_vars, run_status, aux_vars>>

(***************************************************************************)
(* _buffer_loop's successful branch statement by statement, with           *)
(* segment_lock: BufferLoopSuccess is PushLock, PushAppend, the            *)
(* PushPruneStep of every evicted segment and PushUnlock taken together.   *)
(***************************************************************************)
\* Variant of lock_free: the lock is not consulted.
lock_free_unchecked(holder) == TRUE

\* "with self.segment_lock" in a thread that does not hold it: entered only
\* when no thread holds the lock.
lock_free(holder) == holder = "none"

\* The capture call returned a usable file: heartbeat, then the lock is taken.
PushLock ==
    /\ rec_pc = "recording"
    /\ \E r \in RecordResults : segment_ok(r)
    /\ lock_free(segment_lock)
    /\ last_activity' = now
    /\ disk' = disk \cup {segment_index}
    /\ segment_lock' = "recorder"
    /\ rec_pc' = "locked"
    /\ UNCHANGED <<buffer_duration, segment_length, running, segments,
                   remove_errors, consecutive_errors, wd_timer, run_pc,
                   segment_index, errors, stall_warnings, failed_captures, recorded_errors, now,
                   clip_vars, stop_calls, status, monitor_vars, call_vars, run_status, aux_vars>>

\* self.segments.append(...), under the lock.
PushAppend ==
    /\ rec_pc = "locked"
    /\ segments' = append_segment(segments, segment_index, now)
    /\ rec_pc' = "appended"
    /\ UNCHANGED <<buffer_duration, segment_length, running, disk, remove_errors,
                   consecutive_errors, last_activity, wd_timer, run_pc,
                   segment_index, errors, stall_warnings, failed_captures, recorded_errors, now,
                   clip_vars, stop_calls, segment_lock, status, monitor_vars, call_vars, run_status, aux_vars>>

\* One iteration of the loop of _prune_old_segments, under the lock.
PushPruneStep ==
    /\ rec_pc = "appended"
    /\ segments # <<>>
    /\ prune_continue(segments)
    /\ \E failing \in BOOLEAN :
         /\ disk' = os_remove(disk, Head(segments).index, failing)
         /\ remove_errors' = remove_errors \cup
                (IF Head(segments).index \in disk /\ failing
                 THEN {Head(segments).index} ELSE {})
    /\ segments' = Tail(segments)
    /\ UNCHANGED <<buffer_duration, segment_length, running, consecutive_errors,
                   last_activity, wd_timer, run_pc, rec_pc, segment_index, errors,
                   stall_warnings, failed_captures, recorded_errors, now, clip_vars, stop_calls,
                   segment_lock, status, monitor_vars, call_vars, run_status, aux_vars>>

\* The loop of _prune_old_segments ends, the lock is released; counter reset,
\* next index.
PushUnlock ==
    /\ rec_pc = "appended"
    /\ ~prune_continue(segments)
    /\ segment_lock' = "none"
    /\ consecutive_errors' = 0
    /\ failed_captures' = 0
    /\ recorded_errors' = 0
    /\ segment_index' = index_after_success(segment_index)
    /\ rec_pc' = "top"
    /\ run_status' = status_after_push(segment_index, run_status)
    /\ UNCHANGED <<buffer_duration, segment_length, running, segments, disk,
                   remove_errors, last_activity, wd_timer, run_pc, errors,
                   stall_warnings, now, clip_vars, stop_calls, status,
                   monitor_vars, call_vars, aux_vars>>

\* update_buffer_status of the main window, on its timer: the snapshot of
\* get_buffer_status, taken under segment_lock while the thread is running.
GetBufferStatus ==
    /\ run_pc \in {"queued", "validate", "monitor"}
    /\ lock_free(segment_lock)
    /\ status' = [segments |-> Len(segments),
                  duration |-> get_buffer_duration(segments),
                  max_duration |-> buffer_duration]
    /\ UNCHANGED <<session_vars, now, clip_vars, monitor_vars, call_vars, run_status, aux_vars>>

(***************************************************************************)
(* StreamBuffer.check_health, on a timeout of watchdog_timer.              *)
(***************************************************************************)
\* Variant of stalled: a heartbeat of exactly the threshold's age is stale.
stalled_at_threshold(t, last) == t - last >= StallSeconds

\* check_health's test of the heartbeat.
stalled(t, last) == t - last > StallSeconds

\* Variant of health_stop: the first stalled tick already stops.
health_stop_on_first(count) == count >= 1

\* The test on the counter after the watchdog's increment.
health_stop(count) == count >= max_errors

CheckHealth ==
    /\ wd_timer = "timeout"
    /\ IF running /\ stalled(now, last_activity)
       THEN /\ stall_warnings' = stall_warnings + 1
            /\ consecutive_errors' = consecutive_errors + 1
            /\ recorded_errors' = recorded_errors + 1
            /\ IF health_stop(consecutive_errors')
               THEN /\ errors' = Append(errors, "stalled")
                    /\ stop_effect
               ELSE /\ wd_timer' = "waiting"
                    /\ UNCHANGED <<errors, running>>
       ELSE /\ wd_timer' = "waiting"
            /\ UNCHANGED <<stall_warnings, consecutive_errors, recorded_errors,
                           errors, running>>
    /\ UNCHANGED <<buffer_duration, segment_length, segments, disk, remove_errors,
                   last_activity, run_pc, rec_pc, segment_index, failed_captures,
                   now, clip_vars,
                   stop_calls, segment_lock, status, monitor_vars, call_vars, run_status, aux_vars>>

(***************************************************************************)
(* ClipCreator.run.                                                        *)
(***************************************************************************)
\* create_clip of the main window: a ClipCreator for a request is started.
ClipStartWith(starts, durations) ==
    /\ clip_pc = "idle"
    /\ run_pc # "idle"
    /\ \E s \in starts, d \in durations :
         clip_req' = [start_time_ago |-> s, duration |-> d]
    /\ clip_pc' = "start"
    /\ UNCHANGED <<session_vars, status, monitor_vars, call_vars, run_status, aux_vars, now, clip_segments,
                   manifest, ffmpeg_started, output, clip_events, clip_rc>>

ClipStart == ClipStartWith(StartAgos, Durations)

\* Variant of select_outcome: the emptiness test is missing.
select_outcome_no_check(segs) == [pc |-> "selected", events |-> <<>>]

\* run(): "if not segments": the error event and the return.
select_outcome(segs) ==
    IF segs = <<>>
    THEN [pc |-> "done", events |-> <<"error_no_segments">>]
    ELSE [pc |-> "selected", events |-> <<>>]

\* Variant of store_after_scan: the selected segments are taken out of the
\* store.
store_after_scan_taken(segs, selected) ==
    SelectSeq(segs, LAMBDA s : s \notin {selected[i] : i \in 1 .. Len(selected)})

\* The deque after get_segments_for_clip: "for segment in self.segments"
\* copies references and removes nothing.
store_after_scan(segs, selected) == segs

\* run(): the selection, taken under segment_lock; an empty one ends the run
\* with an error.
ClipSelect ==
    /\ clip_pc = "start"
    /\ lock_free(segment_lock)
    /\ LET segs == get_segments_for_clip(segments, now, clip_req.start_time_ago,
                                         clip_req.duration)
       IN  /\ clip_segments' = segs
           /\ clip_events' = clip_events \o select_outcome(segs).events
           /\ clip_pc' = select_outcome(segs).pc
           /\ segments' = store_after_scan(segments, segs)
    /\ UNCHANGED <<buffer_duration, segment_length, running, disk, remove_errors,
                   consecutive_errors, last_activity, wd_timer, run_pc, rec_pc,
                   segment_index, errors, stall_warnings, failed_captures, recorded_errors,
                   stop_calls, segment_lock, status, monitor_vars, call_vars, run_status, aux_vars, now, clip_req,
                   manifest, ffmpeg_started, output, clip_rc>>

\* The statements of run() between the selection and the progress loop that
\* can raise: open/write of the file list, os.makedirs, subprocess.Popen.
LaunchFailures == {"none", "open", "makedirs", "popen"}

\* run(): the file list is written, the output directory is made and FFmpeg
\* is launched; a statement that raises ends the run in the except branch
\* (the error event), with the file list left as it is: written once open
\* has succeeded, possibly created when open or write raised.
ClipLaunch ==
    /\ clip_pc = "selected"
    /\ \E failure \in LaunchFailures :
         /\ manifest' \in (IF failure = "open" THEN BOOLEAN ELSE {TRUE})
         /\ ffmpeg_started' = (failure = "none")
         /\ clip_events' = IF failure = "none" THEN clip_events
                           ELSE Append(clip_events, "error_exception")
         /\ clip_pc' = IF failure = "none" THEN "encoding" ELSE "done"
    /\ UNCHANGED <<session_vars, status, monitor_vars, call_vars, run_status, aux_vars, now, clip_req, clip_segments,
                   output, clip_rc>>

\* run(): FFmpeg ended with return_code and left size bytes at output_path
\* (-1 = no file); the file list is removed and the result is reported.
\* Variant of clip_result: a file of exactly the minimum size passes.
clip_result_ge(return_code, size) ==
    IF return_code = 0 /\ size >= 0
    THEN IF size >= MinClipBytes THEN "clip_created" ELSE "error_too_small"
    ELSE "error_ffmpeg_failed"

clip_result(return_code, size) ==
    IF return_code = 0 /\ size >= 0
    THEN IF size > MinClipBytes THEN "clip_created" ELSE "error_too_small"
    ELSE "error_ffmpeg_failed"

\* Variant of finish_events: a clip that is too small is dropped silently.
finish_events_silent(return_code, size) ==
    IF clip_result(return_code, size) = "error_too_small"
    THEN <<>>
    ELSE <<clip_result(return_code, size)>>

\* The clip_created / error_occurred signals of the result check.
finish_events(return_code, size) == <<clip_result(return_code, size)>>

\* Variant of disk_after_clip: the files of the selected segments are
\* removed with the file list.
disk_after_clip_consumed(files, selected) ==
    files \ {selected[i].index : i \in 1 .. Len(selected)}

\* The segment files after the "Clean up" of run: os.remove is called on
\* file_list_path only.
disk_after_clip(files, selected) == files

\* The progress loop over FFmpeg's stderr, wait(), the removal of the file
\* list (a failure of os.remove is swallowed) and the report of the result.
ClipFinish ==
    /\ clip_pc = "encoding"
    /\ \E return_code \in {0, 1},
          size \in {-1} \cup ClipSizes,
          remove_fails \in BOOLEAN :
         /\ output' = size
         /\ clip_rc' = return_code
         /\ manifest' = remove_fails
         /\ clip_events' = clip_events \o finish_events(return_code, size)
    /\ disk' = disk_after_clip(disk, clip_segments)
    /\ clip_pc' = "done"
    /\ UNCHANGED <<buffer_duration, segment_length, running, segments,
                   remove_errors, consecutive_errors, last_activity, wd_timer,
                   run_pc, rec_pc, segment_index, errors, stall_warnings,
                   failed_captures, stop_calls, segment_lock, recorded_errors,
                   status, monitor_vars, call_vars, run_status, aux_vars, now,
                   clip_req, clip_segments, ffmpeg_started>>

\* Reading FFmpeg's stderr raises (text decoding of its output): the except
\* branch reports the error; wait() and the removal of the file list are
\* skipped and the output is whatever FFmpeg has written.
ClipReadRaises ==
    /\ clip_pc = "encoding"
    /\ \E size \in {-1} \cup ClipSizes : output' = size
    /\ clip_events' = Append(clip_events, "error_exception")
    /\ clip_pc' = "done"
    /\ UNCHANGED <<session_vars, status, monitor_vars, call_vars, run_status, aux_vars, now, clip_req, clip_segments,
                   manifest, ffmpeg_started, clip_rc>>

(***************************************************************************)
(* StreamMonitor.  An outcome o of _check_stream_status: first and second  *)
(* are the outcomes of the --stream-url query and of the --json query:     *)
(* "yes" (return code 0 and a stream in the output), "no", or "raises"     *)
(* (subprocess.run raised, a timeout included).                            *)
(***************************************************************************)
ProbeOutcomes == [first : {"yes", "no", "raises"}, second : {"yes", "no", "raises"}]

\* The return value: every exception is caught and gives False.
check_stream_status(o) ==
    IF o.first = "raises" THEN FALSE
    ELSE IF o.first = "yes" THEN TRUE
    ELSE IF o.second = "raises" THEN FALSE
    ELSE o.second = "yes"

\* The liveness query raised or timed out.
probe_failed(o) == o.first = "raises" \/ (o.first = "no" /\ o.second = "raises")

\* Variant of status_change: a URL without a status counts as offline.
status_change_from_unknown(known, is_live) ==
    IF is_live /\ known # "live" THEN "live"
    ELSE IF ~is_live /\ known = "live" THEN "offline"
    ELSE "none"

\* run(): the signal emitted for a probe result, known = stream_status of the
\* URL ("none": the URL is not in stream_status).
status_change(known, is_live) ==
    IF known # "none"
    THEN IF is_live /\ known = "offline" THEN "live"
         ELSE IF ~is_live /\ known = "live" THEN "offline"
         ELSE "none"
    ELSE "none"

\* Variant of after_probe: a failed query ends the cycle.
after_probe_abort(i, failed) ==
    IF i < Len(monitored_streams) /\ ~failed
    THEN [at |-> "probe", i |-> i + 1]
    ELSE [at |-> "sleep", i |-> 0]

\* run(): the for loop goes on with the next stream, whatever the query did
\* (its exceptions are caught in _check_stream_status), and ends in the wait.
after_probe(i, failed) ==
    IF i < Len(monitored_streams)
    THEN [at |-> "probe", i |-> i + 1]
    ELSE [at |-> "sleep", i |-> 0]

\* QThread.start() from the main window's constructor, then run(): running.
MonitorStart ==
    /\ monitor_pc.at = "idle"
    /\ monitor_running' = TRUE
    /\ monitor_pc' = [at |-> "loop", i |-> 0]
    /\ UNCHANGED <<session_vars, now, clip_vars, status, call_vars, run_status, aux_vars, stream_status, probe,
                   monitor_events>>

\* "while self.running": the for loop starts, or run returns.
MonitorLoopTop ==
    /\ monitor_pc.at = "loop"
    /\ monitor_pc' = IF ~monitor_running THEN [at |-> "finished", i |-> 0]
                     ELSE IF Len(monitored_streams) = 0 THEN [at |-> "sleep", i |-> 0]
                     ELSE [at |-> "probe", i |-> 1]
    /\ UNCHANGED <<session_vars, now, clip_vars, status, call_vars, run_status, aux_vars, stream_status,
                   monitor_running, probe, monitor_events>>

\* One iteration of the for loop: the query, the signal, the new status.
MonitorProbe ==
    /\ monitor_pc.at = "probe"
    /\ probe.n < MaxProbes
    /\ \E o \in ProbeOutcomes :
         LET stream_url == normalise(monitored_streams[monitor_pc.i])
             is_live == check_stream_status(o)
             event == status_change(stream_status[stream_url], is_live)
         IN  /\ probe' = [n |-> probe.n + 1, source |-> stream_url,
                          is_live |-> is_live, failed |-> probe_failed(o),
                          was |-> stream_status[stream_url]]
             /\ monitor_events' =
                    IF event = "none" THEN monitor_events
                    ELSE Append(monitor_events, [event |-> event, source |-> stream_url])
             /\ stream_status' = [stream_status EXCEPT
                    ![stream_url] = IF is_live THEN "live" ELSE "offline"]
             /\ monitor_pc' = after_probe(monitor_pc.i, probe_failed(o))
    /\ UNCHANGED <<session_vars, now, clip_vars, status, call_vars, run_status, aux_vars, monitor_running>>

\* The wait of check_interval seconds ends, or is cut short by stop().
MonitorWake ==
    /\ monitor_pc.at = "sleep"
    /\ monitor_pc' = [at |-> "loop", i |-> 0]
    /\ UNCHANGED <<session_vars, now, clip_vars, status, call_vars, run_status, aux_vars, stream_status,
                   monitor_running, probe, monitor_events>>

\* StreamMonitor.stop(), from closeEvent while the thread is running.
MonitorStop ==
    /\ monitor_pc.at \notin {"idle", "finished"}
    /\ monitor_running' = FALSE
    /\ UNCHANGED <<session_vars, now, clip_vars, status, call_vars, run_status, aux_vars, stream_status,
                   monitor_pc, probe, monitor_events>>

MonitorNext ==
    \/ MonitorStart
    \/ MonitorLoopTop
    \/ MonitorProbe
    \/ MonitorWake
    \/ MonitorStop

MonitorSpec == Init /\ [][MonitorNext]_vars

(***************************************************************************)
(* The session: the run thread, the recorder thread, the watchdog and the  *)
(* user's stop, over MaxTime seconds.                                      *)
(***************************************************************************)
Next ==
    \/ Tick
    \/ Start
    \/ RunBegin
    \/ RunValidateFail
    \/ RunValidateOk
    \/ RunMonitorExit
    \/ Stop
    \/ BufferLoopTop
    \/ BufferLoopSuccess
    \/ BufferLoopFailure
    \/ CheckHealth

Spec == Init /\ [][Next]_vars

(***************************************************************************)
(* The session together with one clip extraction, over MaxClipTime         *)
(* seconds.                                                                *)
(***************************************************************************)
ClipTick == TickUpTo(MaxClipTime)

ClipNext ==
    \/ ClipTick
    \/ Start
    \/ RunBegin
    \/ RunValidateFail
    \/ RunValidateOk
    \/ RunMonitorExit
    \/ Stop
    \/ BufferLoopTop
    \/ BufferLoopSuccess
    \/ BufferLoopFailure
    \/ CheckHealth
    \/ ClipStart
    \/ ClipSelect
    \/ ClipLaunch
    \/ ClipFinish
    \/ ClipReadRaises

ClipSpec == Init /\ [][ClipNext]_vars

(***************************************************************************)
(* The store under its lock: the push statement by statement, against the  *)
(* status snapshots of the main window and the selection of an extraction, *)
(* over MaxLockTime seconds.                                               *)
(***************************************************************************)
MaxLockTime == 10

LockTick == TickUpTo(MaxLockTime)

LockNext ==
    \/ LockTick
    \/ Start
    \/ RunBegin
    \/ RunValidateFail
    \/ RunValidateOk
    \/ RunMonitorExit
    \/ Stop
    \/ BufferLoopTop
    \/ PushLock
    \/ PushAppend
    \/ PushPruneStep
    \/ PushUnlock
    \/ BufferLoopFailure
    \/ CheckHealth
    \/ GetBufferStatus
    \/ ClipStart
    \/ ClipSelect

LockSpec == Init /\ [][LockNext]_vars

(***************************************************************************)
(* get_segments_for_clip as a function of its inputs: a running session    *)
(* whose store holds any subset of the segments of ages SelectAges at      *)
(* time SelectNow, and a request drawn from the user interface's ranges.   *)
(***************************************************************************)
SelectNow == 30
MaxStartAgo == 23
MinDuration == 5
MaxSelectDuration == 10
SelectAges == {2, 7, 12, 18, 22}
MinBufferDuration == 60        \* the least value of buffer_duration_spin
DefaultSegmentLength == 10     \* StreamBuffer.__init__'s default

\* The store holding one segment per age of ages, oldest first, with the
\* indices base, base + 1, ...
RECURSIVE store_of_ages(_, _)
store_of_ages(ages, base) ==
    IF ages = {} THEN <<>>
    ELSE LET oldest == CHOOSE a \in ages : \A b \in ages : b <= a
         IN  <<[index |-> base, timestamp |-> SelectNow - oldest]>>
             \o store_of_ages(ages \ {oldest}, base + 1)

SelectInit ==
    /\ buffer_duration = MinBufferDuration
    /\ segment_length = DefaultSegmentLength
    /\ running = TRUE
    /\ \E ages \in SUBSET SelectAges :
         /\ segments = store_of_ages(ages, 0)
         /\ disk = 0 .. (Cardinality(ages) - 1)
         /\ segment_index = Cardinality(ages)
    /\ remove_errors = {}
    /\ consecutive_errors = 0
    /\ now = SelectNow
    /\ last_activity = SelectNow
    /\ wd_timer = "waiting"
    /\ run_pc = "monitor"
    /\ rec_pc = "recording"
    /\ errors = <<>>
    /\ stall_warnings = 0
    /\ failed_captures = 0
    /\ stop_calls = 0
    /\ segment_lock = "none"
    /\ recorded_errors = 0
    /\ status = NoStatus
    /\ ClipInit
    /\ MonitorIdle
    /\ NoCalls
    /\ AuxInit

SelectStart == ClipStartWith(0 .. MaxStartAgo, MinDuration .. MaxSelectDuration)

SelectNext ==
    \/ SelectStart
    \/ ClipSelect

SelectSpec == SelectInit /\ [][SelectNext]_vars

(***************************************************************************)
(* The failure counter at the level of its reads and writes: the           *)
(* statement "self.consecutive_errors += 1" of _buffer_loop and that of    *)
(* check_health each read the attribute and then write it, in two threads  *)
(* and under no lock.                                                      *)
(***************************************************************************)
\* Time passes between the statements, not between the read and the write
\* of one increment.
CounterTick ==
    /\ loaded = [rec |-> -1, wd |-> -1]
    /\ TickUpTo(MaxTime)

\* The capture call failed; "self.consecutive_errors += 1": the read.
FailLoad ==
    /\ rec_pc = "recording"
    /\ \E r \in RecordResults :
             /\ ~segment_ok(r)
             /\ disk' = file_after_capture(disk, segment_index, r.size)
    /\ failed_captures' = failed_captures + 1
    /\ recorded_errors' = recorded_errors + 1
    /\ loaded' = [loaded EXCEPT !.rec = consecutive_errors]
    /\ rec_pc' = "fail_loaded"
    /\ UNCHANGED <<buffer_duration, segment_length, running, segments,
                   remove_errors, consecutive_errors, last_activity, wd_timer,
                   run_pc, segment_index, errors, stall_warnings, now, clip_vars,
                   stop_calls, segment_lock, status, monitor_vars, capture, run_status, aux_vars>>

\* "self.consecutive_errors += 1": the write, then the test of the counter.
FailStore ==
    /\ rec_pc = "fail_loaded"
    /\ consecutive_errors' = loaded.rec + 1
    /\ loaded' = [loaded EXCEPT !.rec = -1]
    /\ abort_or_retry(consecutive_errors')
    /\ UNCHANGED <<buffer_duration, segment_length, running, segments, disk,
                   remove_errors, last_activity, wd_timer, run_pc, segment_index,
                   stall_warnings, failed_captures, recorded_errors, now,
                   clip_vars, stop_calls, segment_lock, status, monitor_vars,
                   capture, run_status, aux_vars>>

\* check_health up to the read of "self.consecutive_errors += 1".
HealthLoad ==
    /\ wd_timer = "timeout"
    /\ loaded.wd = -1
    /\ wd_timer' = "waiting"
    /\ IF running /\ stalled(now, last_activity)
       THEN /\ stall_warnings' = stall_warnings + 1
            /\ recorded_errors' = recorded_errors + 1
            /\ loaded' = [loaded EXCEPT !.wd = consecutive_errors]
       ELSE UNCHANGED <<stall_warnings, recorded_errors, loaded>>
    /\ UNCHANGED <<buffer_duration, segment_length, running, segments, disk,
                   remove_errors, consecutive_errors, last_activity, run_pc,
                   rec_pc, segment_index, errors, failed_captures, now,
                   clip_vars, stop_calls, segment_lock, status, monitor_vars,
                   capture, run_status, aux_vars>>

\* check_health from the write of the increment: the test, the error, stop().
HealthStore ==
    /\ loaded.wd >= 0
    /\ consecutive_errors' = loaded.wd + 1
    /\ loaded' = [loaded EXCEPT !.wd = -1]
    /\ IF health_stop(consecutive_errors')
       THEN /\ errors' = Append(errors, "stalled")
            /\ stop_effect
       ELSE UNCHANGED <<errors, running, wd_timer>>
    /\ UNCHANGED <<buffer_duration, segment_length, segments, disk, remove_errors,
                   last_activity, run_pc, rec_pc, segment_index, stall_warnings,
                   failed_captures, recorded_errors, now, clip_vars, stop_calls,
                   segment_lock, status, monitor_vars, capture, run_status, aux_vars>>

CounterNext ==
    \/ CounterTick
    \/ Start
    \/ RunBegin
    \/ RunValidateFail
    \/ RunValidateOk
    \/ RunMonitorExit
    \/ BufferLoopTop
    \/ BufferLoopSuccess
    \/ FailLoad
    \/ FailStore
    \/ HealthLoad
    \/ HealthStore

CounterSpec == Init /\ [][CounterNext]_vars

(***************************************************************************)
(* One iteration of _buffer_loop with the blocking capture call as steps   *)
(* of its own: the call begins, time passes, the call returns with its     *)
(* result, and the loop takes one of its two branches on that result.      *)
(***************************************************************************)
\* "while self.running", the file name, and the call of _record_segment.
CaptureBegin ==
    /\ rec_pc = "top"
    /\ IF running
       THEN /\ segment_index < MaxSegments
            /\ rec_pc' = "capturing"
            /\ capture' = [began |-> now, ok |-> FALSE, size |-> -1]
       ELSE /\ rec_pc' = "exited"
            /\ capture' = capture
    /\ UNCHANGED <<buffer_duration, segment_length, running, segments, disk,
                   remove_errors, consecutive_errors, last_activity, wd_timer,
                   run_pc, segment_index, errors, stall_warnings, failed_captures,
                   recorded_errors, now, clip_vars, stop_calls, segment_lock,
                   status, monitor_vars, loaded, run_status, aux_vars>>

\* _record_segment returns: its value and the file it left behind.
CaptureReturn ==
    /\ rec_pc = "capturing"
    /\ \E r \in RecordResults :
         /\ capture' = [capture EXCEPT !.ok = r.ok, !.size = r.size]
         /\ disk' = file_after_capture(disk, segment_index, r.size)
    /\ rec_pc' = "returned"
    /\ UNCHANGED <<buffer_duration, segment_length, running, segments,
                   remove_errors, consecutive_errors, last_activity, wd_timer,
                   run_pc, segment_index, errors, stall_warnings, failed_captures,
                   recorded_errors, now, clip_vars, stop_calls, segment_lock,
                   status, monitor_vars, loaded, run_status, aux_vars>>

\* The test on the result holds: the successful branch.
CaptureSuccess ==
    /\ rec_pc = "returned"
    /\ segment_ok(capture)
    /\ \E failing \in BOOLEAN : success_branch(failing)
    /\ UNCHANGED <<buffer_duration, segment_length, running, wd_timer, run_pc,
                   errors, stall_warnings, now, clip_vars,
                   stop_calls, segment_lock, status, monitor_vars, call_vars, aux_vars>>

\* The test on the result fails: the failing branch.
CaptureFailure ==
    /\ rec_pc = "returned"
    /\ ~segment_ok(capture)
    /\ consecutive_errors' = consecutive_errors + 1
    /\ recorded_errors' = recorded_errors + 1
    /\ failed_captures' = failed_captures + 1
    /\ abort_or_retry(consecutive_errors')
    /\ UNCHANGED <<buffer_duration, segment_length, running, segments, disk,
                   remove_errors, last_activity, wd_timer, run_pc, segment_index,
                   stall_warnings, now, clip_vars, stop_calls, segment_lock,
                   status, monitor_vars, call_vars, run_status, aux_vars>>

MaxCaptureTime == 35

CaptureTick == TickUpTo(MaxCaptureTime)

CaptureNext ==
    \/ CaptureTick
    \/ Start
    \/ RunBegin
    \/ RunValidateFail
    \/ RunValidateOk
    \/ RunMonitorExit
    \/ Stop
    \/ CaptureBegin
    \/ CaptureReturn
    \/ CaptureSuccess
    \/ CaptureFailure
    \/ CheckHealth

CaptureSpec == Init /\ [][CaptureNext]_vars

(***************************************************************************)
(* TempFileManager and the end of a session.  _cleanup registers the       *)
(* session's buffer directory for deletion after TempLifetime seconds; the *)
(* cleanup timer's thread runs cleanup_expired_files every CleanupInterval *)
(* seconds.  Sessions follow one another: toggle_buffer waits for run to   *)
(* return before it creates the next StreamBuffer.                         *)
(***************************************************************************)
\* "with self.mutex" of a threading.Lock: it is taken only when free, also
\* by the thread that holds it.
mutex_acquirable(holder, who) == holder = "free"

\* The paths of temp_files with expiry <= current_time, in insertion order.
RECURSIVE expired_files(_, _, _)
expired_files(files, dirs, current_time) ==
    IF dirs = {} THEN <<>>
    ELSE LET d == CHOOSE x \in dirs : \A y \in dirs : x <= y
         IN  (IF files[d] >= 0 /\ files[d] <= current_time THEN <<d>> ELSE <<>>)
             \o expired_files(files, dirs \ {d}, current_time)

\* CleanupInterval seconds pass and the cleanup timer fires.  The pass it
\* starts takes no time; a thread that waits for the mutex waits on.
TempTick ==
    /\ cleanup_pc.at \in {"waiting", "unregister"}
    /\ now + CleanupInterval <= MaxTempTime
    /\ now' = now + CleanupInterval
    /\ cleanup_pc' = IF cleanup_pc.at = "waiting"
                     THEN [cleanup_pc EXCEPT !.at = "due"]
                     ELSE cleanup_pc
    /\ UNCHANGED <<session_vars, clip_vars, status, monitor_vars, call_vars,
                   run_status, creator_vars, watch, attempt, encode, temp_files, on_disk, mutex, teardown, rmtree_failed>>

\* toggle_buffer creates the StreamBuffer of session d (its __init__ makes
\* the buffer directory) once the session before it has been torn down.
SessionStart(d) ==
    /\ teardown[d] = "idle"
    /\ \A e \in TempDirs : e < d => teardown[e] = "registered"
    /\ teardown' = [teardown EXCEPT ![d] = "buffering"]
    /\ on_disk' = on_disk \cup {d}
    /\ UNCHANGED <<session_vars, clip_vars, status, monitor_vars, call_vars,
                   run_status, creator_vars, watch, attempt, encode, now, temp_files, mutex, cleanup_pc, rmtree_failed>>

\* The session ends: the finally block of run reaches _cleanup.
SessionStop(d) ==
    /\ teardown[d] = "buffering"
    /\ now <= MaxStopTime
    /\ teardown' = [teardown EXCEPT ![d] = "cleanup"]
    /\ UNCHANGED <<session_vars, clip_vars, status, monitor_vars, call_vars,
                   run_status, creator_vars, watch, attempt, encode, now, temp_files, on_disk, mutex, cleanup_pc,
                   rmtree_failed>>

\* _cleanup: register_temp_file(self.temp_dir, lifetime=3600), under the mutex.
CleanupRegister(d) ==
    /\ teardown[d] = "cleanup"
    /\ mutex_acquirable(mutex, "session")
    /\ temp_files' = [temp_files EXCEPT ![d] = now + TempLifetime]
    /\ teardown' = [teardown EXCEPT ![d] = "registered"]
    /\ UNCHANGED <<session_vars, clip_vars, status, monitor_vars, call_vars,
                   run_status, creator_vars, watch, attempt, encode, now, on_disk, mutex, cleanup_pc, rmtree_failed>>

\* cleanup_expired_files: the mutex is taken and the expired paths are listed.
CleanupLock ==
    /\ cleanup_pc.at = "due"
    /\ mutex_acquirable(mutex, "timer")
    /\ mutex' = "timer"
    /\ cleanup_pc' = [at |-> "loop", expired |-> expired_files(temp_files, TempDirs, now)]
    /\ UNCHANGED <<session_vars, clip_vars, status, monitor_vars, call_vars,
                   run_status, creator_vars, watch, attempt, encode, now, temp_files, on_disk, teardown, rmtree_failed>>

\* delete_temp_file(file_path, force=True) up to its call of
\* unregister_temp_file: a path that does not exist is skipped; rmtree
\* removes the directory, or raises and leaves it (the exception is caught).
CleanupDelete ==
    /\ cleanup_pc.at = "loop"
    /\ cleanup_pc.expired # <<>>
    /\ LET file_path == Head(cleanup_pc.expired)
       IN  IF file_path \in on_disk
           THEN \E raises \in BOOLEAN :
                  IF raises
                  THEN /\ rmtree_failed' = rmtree_failed \cup {file_path}
                       /\ cleanup_pc' = [cleanup_pc EXCEPT !.expired = Tail(@)]
                       /\ on_disk' = on_disk
                  ELSE /\ on_disk' = on_disk \ {file_path}
                       /\ cleanup_pc' = [cleanup_pc EXCEPT !.at = "unregister"]
                       /\ rmtree_failed' = rmtree_failed
           ELSE /\ cleanup_pc' = [cleanup_pc EXCEPT !.expired = Tail(@)]
                /\ UNCHANGED <<on_disk, rmtree_failed>>
    /\ UNCHANGED <<session_vars, clip_vars, status, monitor_vars, call_vars,
                   run_status, creator_vars, watch, attempt, encode, now, temp_files, mutex, teardown>>

\* unregister_temp_file, called by delete_temp_file: "with self.mutex".  The
\* caller is inside cleanup_expired_files and holds the mutex, so this step
\* is enabled in no reachable state and is no disjunct of TempNext.
CleanupUnregister ==
    /\ cleanup_pc.at = "unregister"
    /\ mutex_acquirable(mutex, "timer")
    /\ temp_files' = [temp_files EXCEPT ![Head(cleanup_pc.expired)] = -1]
    /\ cleanup_pc' = [at |-> "loop", expired |-> Tail(cleanup_pc.expired)]
    /\ UNCHANGED <<session_vars, clip_vars, status, monitor_vars, call_vars,
                   run_status, creator_vars, watch, attempt, encode, now, on_disk, mutex, teardown, rmtree_failed>>

\* cleanup_expired_files returns: the mutex is released and cleanup_task
\* starts the next timer.
CleanupRelease ==
    /\ cleanup_pc.at = "loop"
    /\ cleanup_pc.expired = <<>>
    /\ mutex' = "free"
    /\ cleanup_pc' = [at |-> "waiting", expired |-> <<>>]
    /\ UNCHANGED <<session_vars, clip_vars, status, monitor_vars, call_vars,
                   run_status, creator_vars, watch, attempt, encode, now, temp_files, on_disk, teardown, rmtree_failed>>

TempNext ==
    \/ TempTick
    \/ \E d \in TempDirs : SessionStart(d)
    \/ \E d \in TempDirs : SessionStop(d)
    \/ \E d \in TempDirs : CleanupRegister(d)
    \/ CleanupLock
    \/ CleanupDelete
    \/ CleanupRelease

TempSpec == Init /\ [][TempNext]_vars

(***************************************************************************)
(* ClipCreator objects running side by side against one store: run at the  *)
(* level of its file operations and of its writes of self.process, the     *)
(* FFmpeg process each one starts, and stop() called from another thread   *)
(* at the level of its statements.  The store is that of a running session *)
(* holding the segments of ages SelectAges at time SelectNow.              *)
(***************************************************************************)
CreatorStartAgos == {0, 5, 15}
CreatorDuration == 10
SegmentFileNames == <<"0", "1", "2", "3", "4">>

\* str.replace(old, new) on a path, new being a sequence of characters.
RECURSIVE str_replace(_, _, _)
str_replace(path, old, new) ==
    IF path = <<>> THEN <<>>
    ELSE (IF Head(path) = old THEN new ELSE <<Head(path)>>)
         \o str_replace(Tail(path), old, new)

\* Variant of escape_path: the quotes are escaped before the backslashes.
escape_path_quote_first(path) ==
    str_replace(str_replace(path, "'", <<"\\", "'">>), "\\", <<"\\", "\\">>)

\* safe_path: .replace('\\', '\\\\').replace("'", "\\'").
escape_path(path) ==
    str_replace(str_replace(path, "\\", <<"\\", "\\">>), "'", <<"\\", "'">>)

\* segment['file'] = os.path.join(temp_dir, "segment_<index>.ts").
segment_file(dir, s) == dir \o <<"/", SegmentFileNames[s.index + 1]>>

\* The lines written to the file list for the segments selected.
manifest_lines(dir, selected) ==
    [i \in 1 .. Len(selected) |->
        <<"file '">> \o escape_path(segment_file(dir, selected[i])) \o <<"'">>]

CreatorSpecInit ==
    /\ buffer_duration = MinBufferDuration
    /\ segment_length = DefaultSegmentLength
    /\ running = TRUE
    /\ segments = store_of_ages(SelectAges, 0)
    /\ disk = 0 .. (Cardinality(SelectAges) - 1)
    /\ segment_index = Cardinality(SelectAges)
    /\ remove_errors = {}
    /\ consecutive_errors = 0
    /\ now = SelectNow
    /\ last_activity = SelectNow
    /\ wd_timer = "waiting"
    /\ run_pc = "monitor"
    /\ rec_pc = "recording"
    /\ errors = <<>>
    /\ stall_warnings = 0
    /\ failed_captures = 0
    /\ stop_calls = 0
    /\ segment_lock = "none"
    /\ recorded_errors = 0
    /\ status = NoStatus
    /\ ClipInit
    /\ MonitorIdle
    /\ NoCalls
    /\ run_status = "buffering"
    /\ TempInit
    /\ CreatorInit(BufferDirPaths)
    /\ WatchInit(monitored_streams)
    /\ attempt = NoAttempt
    /\ encode = NoEncode

\* One second passes.
CreatorTick ==
    /\ now + 1 <= MaxCreatorTime
    /\ now' = now + 1
    /\ UNCHANGED <<base_vars, temp_vars, watch, attempt, encode, creator_vars>>

\* create_clip: a ClipCreator is constructed and started.
CreatorStart(c) ==
    /\ creators[c].pc = "idle"
    /\ \E start_time_ago \in CreatorStartAgos :
         creators' = [creators EXCEPT ![c].pc = "select",
                                      ![c].start_time_ago = start_time_ago]
    /\ UNCHANGED <<base_vars, temp_vars, watch, attempt, encode, now, temp_dir, file_lists, stops>>

\* run: get_segments_for_clip; an empty selection ends the run with an
\* error (the finally block leaves self.process None).
CreatorSelect(c) ==
    /\ creators[c].pc = "select"
    /\ LET selected == get_segments_for_clip(segments, now,
                           creators[c].start_time_ago, CreatorDuration)
       IN  creators' =
             IF selected = <<>>
             THEN [creators EXCEPT ![c].pc = "done",
                                   ![c].events = Append(@, "error_occurred")]
             ELSE [creators EXCEPT ![c].pc = "selected",
                                   ![c].segments = selected]
    /\ UNCHANGED <<base_vars, temp_vars, watch, attempt, encode, now, temp_dir, file_lists, stops>>

\* run: file_list_path is named after int(time.time()) and the file is
\* opened with mode 'w' (an existing file is replaced) and written.
CreatorWrite(c) ==
    /\ creators[c].pc = "selected"
    /\ creators' = [creators EXCEPT ![c].pc = "written",
                                    ![c].file_list_path = now]
    /\ file_lists' = [file_lists EXCEPT ![now] =
                        [exists |-> TRUE,
                         lines |-> manifest_lines(temp_dir, creators[c].segments),
                         writer |-> c]]
    /\ UNCHANGED <<base_vars, temp_vars, watch, attempt, encode, now, temp_dir, stops>>

\* run: subprocess.Popen sets self.process; if it raises, the except clause
\* reports the error and the run reaches its finally block.
CreatorLaunch(c) ==
    /\ creators[c].pc = "written"
    /\ \E raises \in BOOLEAN :
         creators' =
             IF raises
             THEN [creators EXCEPT ![c].pc = "finally",
                                   ![c].events = Append(@, "error_occurred")]
             ELSE [creators EXCEPT ![c].pc = "encoding",
                                   ![c].process = "handle",
                                   ![c].child = "started"]
    /\ UNCHANGED <<base_vars, temp_vars, watch, attempt, encode, now, temp_dir, file_lists, stops>>

\* FFmpeg opens the file given with -i: the clip_list file of that name as
\* it is now.
FfmpegOpen(c) ==
    /\ creators[c].child = "started"
    /\ creators' = [creators EXCEPT ![c].child = "running",
                                    ![c].read = file_lists[creators[c].file_list_path]]
    /\ UNCHANGED <<base_vars, temp_vars, watch, attempt, encode, now, temp_dir, file_lists, stops>>

\* FFmpeg ends: by itself, or on the signal sent by terminate().
FfmpegExit(c) ==
    /\ creators[c].child \in {"running", "signalled"}
    /\ creators' = [creators EXCEPT ![c].child = IF @ = "running" THEN "exited"
                                                 ELSE "terminated"]
    /\ UNCHANGED <<base_vars, temp_vars, watch, attempt, encode, now, temp_dir, file_lists, stops>>

\* run: the loop over stderr ends when FFmpeg has ended, wait() returns,
\* os.remove(file_list_path) removes the file of that name (if there is
\* none the exception is swallowed), and the result is reported.
CreatorCleanup(c) ==
    /\ creators[c].pc = "encoding"
    /\ creators[c].child \in {"exited", "terminated", "killed"}
    /\ file_lists' = [file_lists EXCEPT ![creators[c].file_list_path] = NoFileList]
    /\ \E ok \in BOOLEAN :
         /\ ok => creators[c].child = "exited" /\ creators[c].read.exists
         /\ creators' = [creators EXCEPT
                ![c].pc = "finally",
                ![c].events = Append(@, IF ok THEN "clip_created" ELSE "error_occurred")]
    /\ UNCHANGED <<base_vars, temp_vars, watch, attempt, encode, now, temp_dir, stops>>

\* run: "finally: self.process = None".
CreatorFinally(c) ==
    /\ creators[c].pc = "finally"
    /\ creators' = [creators EXCEPT ![c].pc = "done", ![c].process = "none"]
    /\ UNCHANGED <<base_vars, temp_vars, watch, attempt, encode, now, temp_dir, file_lists, stops>>

\* stop: "if self.process:".
StopCheck(c) ==
    /\ stops[c] = "idle"
    /\ creators[c].pc # "idle"
    /\ stops' = [stops EXCEPT ![c] = IF creators[c].process = "handle"
                                     THEN "terminate" ELSE "returned"]
    /\ UNCHANGED <<base_vars, temp_vars, watch, attempt, encode, now, temp_dir, creators, file_lists>>

\* The FFmpeg process after terminate() or kill(): a process that has ended
\* is left as it is.
child_after_signal(child, state) ==
    IF child \in {"started", "running", "signalled"} THEN state ELSE child

\* stop: "self.process.terminate()"; on None the attribute lookup raises
\* and the except clause is entered.
StopTerminate(c) ==
    /\ stops[c] = "terminate"
    /\ IF creators[c].process = "handle"
       THEN /\ creators' = [creators EXCEPT
                  ![c].child = child_after_signal(@, "signalled")]
            /\ stops' = [stops EXCEPT ![c] = "wait"]
       ELSE /\ stops' = [stops EXCEPT ![c] = "except"]
            /\ UNCHANGED creators
    /\ UNCHANGED <<base_vars, temp_vars, watch, attempt, encode, now, temp_dir, file_lists>>

\* stop: "self.process.wait(timeout=5)" returns if FFmpeg has ended and
\* raises TimeoutExpired if it has not; on None the attribute lookup raises.
\* Either exception enters the except clause.
StopWait(c) ==
    /\ stops[c] = "wait"
    /\ stops' = [stops EXCEPT ![c] =
                    IF /\ creators[c].process = "handle"
                       /\ creators[c].child \in {"exited", "terminated", "killed"}
                    THEN "returned" ELSE "except"]
    /\ UNCHANGED <<base_vars, temp_vars, watch, attempt, encode, now, temp_dir, creators, file_lists>>

\* Variant of stop_except: the except clause does nothing on None.
stop_except_guarded(process) == "returned"

\* stop: "except: self.process.kill()"; on None the attribute lookup raises
\* out of stop.
stop_except(process) == IF process = "handle" THEN "returned" ELSE "raised"

StopKill(c) ==
    /\ stops[c] = "except"
    /\ stops' = [stops EXCEPT ![c] = stop_except(creators[c].process)]
    /\ creators' = IF creators[c].process = "handle"
                   THEN [creators EXCEPT ![c].child = child_after_signal(@, "killed")]
                   ELSE creators
    /\ UNCHANGED <<base_vars, temp_vars, watch, attempt, encode, now, temp_dir, file_lists>>

CreatorNext ==
    \/ CreatorTick
    \/ \E c \in Creators : CreatorStart(c)
    \/ \E c \in Creators : CreatorSelect(c)
    \/ \E c \in Creators : CreatorWrite(c)
    \/ \E c \in Creators : CreatorLaunch(c)
    \/ \E c \in Creators : FfmpegOpen(c)
    \/ \E c \in Creators : FfmpegExit(c)
    \/ \E c \in Creators : CreatorCleanup(c)
    \/ \E c \in Creators : CreatorFinally(c)
    \/ \E c \in Creators : StopCheck(c)
    \/ \E c \in Creators : StopTerminate(c)
    \/ \E c \in Creators : StopWait(c)
    \/ \E c \in Creators : StopKill(c)

CreatorSpec == CreatorSpecInit /\ [][CreatorNext]_vars

(***************************************************************************)
(* A StreamMonitor whose list is changed by add_stream and remove_stream   *)
(* (called from another thread) while run polls: the for loop of run at    *)
(* the level of its iterator, which reads monitored_streams by position at *)
(* every step, and of the liveness query, during which the list can        *)
(* change.                                                                 *)
(***************************************************************************)
MaxWatchCalls == 3     \* calls of add_stream and remove_stream
MaxWatchProbes == 3    \* liveness queries

\* The arguments add_stream and remove_stream are called with.
WatchUrls == {monitored_streams[i] : i \in 1 .. Len(monitored_streams)} \cup Sources

\* The lists the configuration can hold at construction.
WatchLists == {<<>>, monitored_streams}

WatchSpecInit ==
    /\ CoreInit
    /\ run_status = "none"
    /\ TempInit
    /\ CreatorInit({<<"t">>})
    /\ \E lst \in WatchLists : WatchInit(lst)
    /\ attempt = NoAttempt
    /\ encode = NoEncode

\* list.remove(x): the first element equal to x is taken out.
RECURSIVE list_remove(_, _)
list_remove(lst, x) ==
    IF lst = <<>> THEN <<>>
    ELSE IF Head(lst) = x THEN Tail(lst)
    ELSE <<Head(lst)>> \o list_remove(Tail(lst), x)

\* run: the thread starts; "while self.running" begins a cycle with a new
\* iterator over monitored_streams.
WatchStart ==
    /\ watch.pc.at \in {"idle", "sleep"}
    /\ watch' = [watch EXCEPT !.pc.at = "for", !.pc.i = 0]
    /\ UNCHANGED <<base_vars, now, temp_vars, creator_vars, attempt, encode>>

\* The iterator's next step: the element at its index of the list as it is
\* now, made a Twitch URL; past the end of the list the cycle ends.
WatchFetch ==
    /\ watch.pc.at = "for"
    /\ watch' = IF watch.pc.i < Len(watch.monitored_streams)
                THEN [watch EXCEPT
                        !.pc = [at |-> "check", i |-> watch.pc.i + 1,
                                stream_url |->
                                  normalise(watch.monitored_streams[watch.pc.i + 1])]]
                ELSE [watch EXCEPT !.pc.at = "sleep"]
    /\ UNCHANGED <<base_vars, now, temp_vars, creator_vars, attempt, encode>>

\* Variant of status_after_check: a URL no longer monitored gets no entry.
status_after_check_monitored(lst, known, stream_url, is_live) ==
    IF \E i \in 1 .. Len(lst) : normalise(lst[i]) = stream_url
    THEN [known EXCEPT ![stream_url] = IF is_live THEN "live" ELSE "offline"]
    ELSE known

\* run: "self.stream_status[stream_url] = is_live".
status_after_check(lst, known, stream_url, is_live) ==
    [known EXCEPT ![stream_url] = IF is_live THEN "live" ELSE "offline"]

\* _check_stream_status returns; the transition is signalled and the status
\* stored.
WatchProbe ==
    /\ watch.pc.at = "check"
    /\ watch.probes < MaxWatchProbes
    /\ \E o \in ProbeOutcomes :
         LET stream_url == watch.pc.stream_url
             is_live == check_stream_status(o)
             event == status_change(watch.stream_status[stream_url], is_live)
         IN  watch' = [watch EXCEPT
                !.events = IF event = "none" THEN @
                           ELSE Append(@, [event |-> event, source |-> stream_url]),
                !.stream_status = status_after_check(watch.monitored_streams, @,
                                                     stream_url, is_live),
                !.probes = @ + 1,
                !.pc.at = "for"]
    /\ UNCHANGED <<base_vars, now, temp_vars, creator_vars, attempt, encode>>

\* add_stream(stream_url): the URL is made a Twitch URL and appended if new.
AddStream(stream_url) ==
    /\ watch.calls < MaxWatchCalls
    /\ LET url == normalise(stream_url)
       IN  watch' = [watch EXCEPT
              !.monitored_streams =
                  IF \E i \in 1 .. Len(@) : @[i] = url THEN @ ELSE Append(@, url),
              !.removed = {x \in @ : normalise(x) # url},
              !.calls = @ + 1]
    /\ UNCHANGED <<base_vars, now, temp_vars, creator_vars, attempt, encode>>

\* remove_stream(stream_url): if the argument is in the list it is removed,
\* and the entry stream_status has under the argument is deleted.
RemoveStream(stream_url) ==
    /\ watch.calls < MaxWatchCalls
    /\ watch' = [watch EXCEPT
          !.monitored_streams = list_remove(@, stream_url),
          !.stream_status =
              IF /\ \E i \in 1 .. Len(watch.monitored_streams) :
                       watch.monitored_streams[i] = stream_url
                 /\ stream_url \in Sources
              THEN [@ EXCEPT ![stream_url] = "none"]
              ELSE @,
          !.removed = @ \cup {stream_url},
          !.calls = @ + 1]
    /\ UNCHANGED <<base_vars, now, temp_vars, creator_vars, attempt, encode>>

WatchNext ==
    \/ WatchStart
    \/ WatchFetch
    \/ WatchProbe
    \/ \E u \in WatchUrls : AddStream(u)
    \/ \E u \in WatchUrls : RemoveStream(u)

WatchSpec == WatchSpecInit /\ [][WatchNext]_vars

(***************************************************************************)
(* One call of _record_segment at the level of its statements: the         *)
(* duration-limited invocation (duration_cmd, run to its end or to the     *)
(* timeout), then, if its stderr has "error: unrecognized arguments", the  *)
(* plain invocation (simple_cmd) started with Popen, terminated after      *)
(* segment_length seconds and waited for.                                  *)
(***************************************************************************)
StrategySpecInit ==
    /\ CoreInit
    /\ run_status = "none"
    /\ TempInit
    /\ CreatorInit({<<"t">>})
    /\ WatchInit(monitored_streams)
    /\ attempt = NoAttempt
    /\ encode = NoEncode

\* "result.returncode == 0 and os.path.exists(output_file)" and
\* "file_size > 1000".
duration_cmd_ok(o) == o.rc = 0 /\ o.size1 >= 0 /\ o.size1 > MinSegmentBytes

\* Variant of fallback_wanted: every failure of duration_cmd leads to
\* simple_cmd.
fallback_wanted_always(o) == TRUE

\* '"error: unrecognized arguments" in (result.stderr or "")'.
fallback_wanted(o) == o.unrecognized

\* _record_segment is called: subprocess.run(duration_cmd, timeout=...)
\* starts; o is what the capture tool will do.
RecordBegin ==
    /\ attempt.pc = "idle"
    /\ \E o \in RecordOutcomes :
         attempt' = [attempt EXCEPT !.pc = "duration_cmd", !.o = o,
                                    !.tried = <<"duration_cmd">>]
    /\ UNCHANGED <<base_vars, now, temp_vars, creator_vars, watch, encode>>

\* subprocess.run returns or raises TimeoutExpired: the call returns False
\* on the timeout, True on a valid file, starts simple_cmd on "unrecognized
\* arguments", and returns False otherwise.
RecordFirstDone ==
    /\ attempt.pc = "duration_cmd"
    /\ LET o == attempt.o
       IN  attempt' =
             IF o.timeout
             THEN [attempt EXCEPT !.pc = "returned", !.size = o.size1,
                                  !.result = "false"]
             ELSE IF duration_cmd_ok(o)
             THEN [attempt EXCEPT !.pc = "returned", !.size = o.size1,
                                  !.result = "true"]
             ELSE IF fallback_wanted(o)
             THEN [attempt EXCEPT !.pc = "simple_cmd", !.size = o.size1,
                                  !.tried = Append(@, "simple_cmd"),
                                  !.proc = "running"]
             ELSE [attempt EXCEPT !.pc = "returned", !.size = o.size1,
                                  !.result = "false"]
    /\ UNCHANGED <<base_vars, now, temp_vars, creator_vars, watch, encode>>

\* time.sleep(segment_length), proc.terminate(), proc.wait(timeout=5): the
\* process has written the file; terminate or wait raises (the except
\* clause follows), or the process has ended and the file is checked.
RecordFallbackWait ==
    /\ attempt.pc = "simple_cmd"
    /\ LET o == attempt.o
       IN  attempt' =
             IF o.wait_raises
             THEN [attempt EXCEPT !.pc = "except", !.size = o.size2]
             ELSE [attempt EXCEPT
                     !.pc = "returned", !.size = o.size2,
                     !.proc = "terminated",
                     !.result = IF o.size2 >= 0 /\ o.size2 > MinSegmentBytes
                                THEN "true" ELSE "false"]
    /\ UNCHANGED <<base_vars, now, temp_vars, creator_vars, watch, encode>>

\* "except: if proc: proc.kill()", then "return False".
RecordFallbackKill ==
    /\ attempt.pc = "except"
    /\ attempt' = [attempt EXCEPT !.pc = "returned", !.proc = "killed",
                                  !.result = "false"]
    /\ UNCHANGED <<base_vars, now, temp_vars, creator_vars, watch, encode>>

StrategyNext ==
    \/ RecordBegin
    \/ RecordFirstDone
    \/ RecordFallbackWait
    \/ RecordFallbackKill

StrategySpec == StrategySpecInit /\ [][StrategyNext]_vars

(***************************************************************************)
(* The progress loop of ClipCreator.run: the lines FFmpeg writes to stderr *)
(* are read one by one; a line with "time=" is a position marker, whose    *)
(* text up to the next blank is split at ':' and parsed.  Positions are    *)
(* in hundredths of a second, so that the quotient is exact.               *)
(***************************************************************************)
MaxStderrLines == 2    \* lines read from FFmpeg's stderr in ProgressSpec
MidpointProgress == 50
FullProgress == 100

\* self.duration: the least, the default and the largest of duration_spin.
EncodeDurations == {5, 30, 60}

\* A part of time_str: int() or float() returns value, or raises.
Number(n) == [ok |-> TRUE, value |-> n]
NotANumber == [ok |-> FALSE, value |-> 0]

\* The lines tried: one without "time=", "time=N/A", a time with a part
\* that is not a number, and times of three parts whose hour is 0 or
\* negative (int() accepts a sign), e.g. time=00:00:02.50,
\* time=00:01:00.00, time=-1:00:02.50.
StderrLines ==
    {[marker |-> FALSE, parts |-> <<>>],
     [marker |-> TRUE, parts |-> <<NotANumber>>],
     [marker |-> TRUE, parts |-> <<Number(0), NotANumber, Number(0)>>]}
    \cup {[marker |-> TRUE, parts |-> <<Number(h), Number(m), Number(cs)>>] :
            h \in {-1, 0}, m \in {0, 1}, cs \in {0, 250, 1075, 5999}}

\* Python's int() of the quotient n / d for d > 0: towards zero.
int_quotient(n, d) == IF n >= 0 THEN n \div d ELSE -((-n) \div d)

\* min(int((current_seconds / duration_seconds) * 100), 100), current in
\* hundredths of a second.
progress_of(current, duration_seconds) ==
    IF int_quotient(current, duration_seconds) > FullProgress THEN FullProgress
    ELSE int_quotient(current, duration_seconds)

\* The values emitted for a line: nothing unless it has three parts that
\* are numbers (an exception of int() or float() is swallowed).
line_progress(line, duration_seconds) ==
    IF /\ line.marker
       /\ Len(line.parts) = 3
       /\ \A k \in 1 .. 3 : line.parts[k].ok
    THEN <<progress_of(line.parts[1].value * 360000 + line.parts[2].value * 6000
                          + line.parts[3].value,
                       duration_seconds)>>
    ELSE <<>>

ProgressSpecInit ==
    /\ CoreInit
    /\ run_status = "none"
    /\ TempInit
    /\ CreatorInit({<<"t">>})
    /\ WatchInit(monitored_streams)
    /\ attempt = NoAttempt
    /\ encode = NoEncode

\* run has started FFmpeg: duration_seconds = self.duration,
\* progress_found = False.
EncodeBegin ==
    /\ encode.pc = "idle"
    /\ \E d \in EncodeDurations :
         encode' = [encode EXCEPT !.pc = "reading", !.duration = d]
    /\ UNCHANGED <<base_vars, now, temp_vars, creator_vars, watch, attempt>>

\* One iteration of "for line in self.process.stderr".
EncodeLine ==
    /\ encode.pc = "reading"
    /\ encode.lines < MaxStderrLines
    /\ \E line \in StderrLines :
         encode' = [encode EXCEPT
            !.progress_found = @ \/ line.marker,
            !.progress = @ \o line_progress(line, encode.duration),
            !.lines = @ + 1]
    /\ UNCHANGED <<base_vars, now, temp_vars, creator_vars, watch, attempt>>

\* stderr is at its end: "if not progress_found: emit(50)".
EncodeEof ==
    /\ encode.pc = "reading"
    /\ encode' = [encode EXCEPT
          !.pc = "waited",
          !.progress = IF encode.progress_found THEN @
                       ELSE Append(@, MidpointProgress)]
    /\ UNCHANGED <<base_vars, now, temp_vars, creator_vars, watch, attempt>>

\* wait() returns and the result is checked: 100 and clip_created for a
\* good output file, error_occurred otherwise.
EncodeReport ==
    /\ encode.pc = "waited"
    /\ \E return_code \in {0, 1}, size \in {-1} \cup ClipSizes :
         encode' = [encode EXCEPT
            !.pc = "done",
            !.progress = IF clip_result(return_code, size) = "clip_created"
                         THEN Append(@, FullProgress) ELSE @,
            !.events = @ \o finish_events(return_code, size)]
    /\ UNCHANGED <<base_vars, now, temp_vars, creator_vars, watch, attempt>>

ProgressNext ==
    \/ EncodeBegin
    \/ EncodeLine
    \/ EncodeEof
    \/ EncodeReport

ProgressSpec == ProgressSpecInit /\ [][ProgressNext]_vars

(***************************************************************************)
(* Properties.                                                             *)
(***************************************************************************)
Range(seq) == {seq[i] : i \in 1 .. Len(seq)}
Min(a, b) == IF a <= b THEN a ELSE b
held == {segments[i].index : i \in 1 .. Len(segments)}
age(s) == now - s.timestamp
ages_of(seq) == {age(seq[i]) : i \in 1 .. Len(seq)}
selection_taken == clip_pc \in {"selected", "encoding", "done"}
request(s, d) == clip_req = [start_time_ago |-> s, duration |-> d]
fatal_errors == Cardinality({i \in 1 .. Len(errors) : errors[i] \in {"ended", "stalled"}})

\* C1: after each push the buffered duration (held segments x segment length)
\* is at most the configured maximum buffer duration.
C1_BufferedDurationBounded ==
    Len(segments) * segment_length <= buffer_duration

\* C1 witness: pushes have happened, one of which made the store evict.
C1_Witness ==
    /\ segment_index > Len(segments)
    /\ Len(segments) >= 2
    /\ Len(segments) * segment_length < buffer_duration

\* C2: the store holds exactly the longest suffix of the pushed segments whose
\* total duration does not exceed the maximum; with 30 s / 10 s, three pushes
\* leave 30 s with nothing evicted and the fourth evicts only segment 0.
C2_FifoMinimal ==
    LET n == Min(segment_index, buffer_duration \div segment_length)
    IN  /\ Len(segments) = n
        /\ \A i \in 1 .. Len(segments) :
             segments[i].index = segment_index - n + (i - 1)
        /\ (buffer_duration = 30 /\ segment_length = 10 /\ segment_index = 3)
             => (held = {0, 1, 2} /\ Len(segments) * segment_length = 30)
        /\ (buffer_duration = 30 /\ segment_length = 10 /\ segment_index = 4)
             => (held = {1, 2, 3} /\ Len(segments) * segment_length = 30)

\* C2 witness: 30 s / 10 s after the fourth push.
C2_Witness ==
    /\ buffer_duration = 30
    /\ segment_length = 10
    /\ segment_index = 4
    /\ Len(segments) = 3
    /\ Head(segments).index = 1

\* C3 as claimed: every file of a successfully captured segment that exists on
\* disk belongs to a segment still held in the store.
C3_EvictedFileGone ==
    \A i \in disk : i < segment_index => i \in held

\* C3 as amended: an evicted segment's file no longer exists unless its
\* removal failed (and was logged): every file of a successfully captured
\* segment on disk belongs to a held segment or to one whose removal failed.
C3_EvictedFileGoneUnlessRemoveFailed ==
    /\ \A i \in disk : i < segment_index => (i \in held \/ i \in remove_errors)
    /\ \A i \in 0 .. (segment_index - 1) :
         (i \notin held /\ i \notin remove_errors) => i \notin disk

\* C3 witness: a segment has been evicted and its file removed.
C3_Witness ==
    \E i \in 0 .. (segment_index - 1) :
        i \notin held /\ i \notin remove_errors /\ i \notin disk

\* C4: the held segments are ordered by capture timestamp ascending, front =
\* oldest, in every reachable state.
C4_OrderedByTimestamp ==
    \A i, j \in 1 .. Len(segments) :
        i < j => segments[i].timestamp <= segments[j].timestamp

\* C4 witness: after an eviction and a selection, the store holds segments
\* captured at different times.
C4_Witness ==
    /\ clip_pc = "selected"
    /\ clip_segments = segments
    /\ segment_index > Len(segments)
    /\ Len(segments) >= 2
    /\ segments[1].timestamp < segments[Len(segments)].timestamp

\* C5: the selection is exactly the held segments whose age a satisfies
\* start_time_ago - duration <= a <= start_time_ago, each once, ordered by
\* timestamp ascending; ages [2,7,12,18] with (10, 10) yield ages {2,7}.
C5_SelectExact ==
    selection_taken =>
        LET wanted == {s \in Range(segments) :
                         /\ clip_req.start_time_ago - clip_req.duration <= age(s)
                         /\ age(s) <= clip_req.start_time_ago}
        IN  /\ Range(clip_segments) = wanted
            /\ Len(clip_segments) = Cardinality(wanted)
            /\ \A i, j \in 1 .. Len(clip_segments) :
                 i < j => clip_segments[i].timestamp <= clip_segments[j].timestamp
            /\ (ages_of(segments) = {2, 7, 12, 18} /\ request(10, 10))
                 => ages_of(clip_segments) = {2, 7}

\* C5 witness: the selection over ages [2,7,12,18] for (10, 10).
C5_Witness ==
    /\ clip_pc = "selected"
    /\ ages_of(segments) = {2, 7, 12, 18}
    /\ request(10, 10)

\* C6 as claimed: startAgo = 15, duration = 10 over ages {2,7,12,18,22}
\* selects the segments of ages 12 and 18 and no others.
C6_Ages12And18 ==
    (selection_taken /\ ages_of(segments) = {2, 7, 12, 18, 22} /\ request(15, 10))
        => ages_of(clip_segments) = {12, 18}

\* C6 as amended: that request selects the segments of ages 7 and 12 and no
\* others.
C6_Ages7And12 ==
    (selection_taken /\ ages_of(segments) = {2, 7, 12, 18, 22} /\ request(15, 10))
        => (ages_of(clip_segments) = {7, 12} /\ Len(clip_segments) = 2)

\* C6 witness: the selection for (15, 10) over ages {2,7,12,18,22}.
C6_Witness ==
    /\ clip_pc = "selected"
    /\ ages_of(segments) = {2, 7, 12, 18, 22}
    /\ request(15, 10)

\* C7 as claimed: every selected segment's timestamp lies in
\* [now - startAgo - duration, now - startAgo].
C7_WindowEndsAtStartAgo ==
    selection_taken =>
        \A s \in Range(clip_segments) :
            /\ now - clip_req.start_time_ago - clip_req.duration <= s.timestamp
            /\ s.timestamp <= now - clip_req.start_time_ago

\* C7 as amended: every selected segment's timestamp lies in
\* [now - startAgo, now - startAgo + duration]: the clip covers the duration
\* seconds that begin startAgo seconds before now.
C7_WindowBeginsAtStartAgo ==
    selection_taken =>
        \A s \in Range(clip_segments) :
            /\ now - clip_req.start_time_ago <= s.timestamp
            /\ s.timestamp <= now - clip_req.start_time_ago + clip_req.duration

\* C7 witness: a selection holding a segment captured after now - startAgo.
C7_Witness ==
    /\ clip_pc = "selected"
    /\ \E s \in Range(clip_segments) : s.timestamp > now - clip_req.start_time_ago

\* C8: an extraction whose selection is empty ends with the "no segments"
\* error event alone: FFmpeg is never launched, no file list and no output
\* file are created, no completion event is emitted.
C8_EmptySelectionFails ==
    (selection_taken /\ clip_segments = <<>>) =>
        /\ clip_pc = "done"
        /\ clip_events = <<"error_no_segments">>
        /\ ~ffmpeg_started
        /\ ~manifest
        /\ output = -1

\* C8 witness: the store holds segments, none in the requested window, and
\* the extraction has ended.
C8_Witness ==
    /\ clip_pc = "done"
    /\ clip_segments = <<>>
    /\ segments # <<>>
    /\ clip_events = <<"error_no_segments">>

\* C9: after max_errors consecutive capture failures the session is
\* fatal-stopped (running cleared) and exactly one fatal error event has been
\* emitted for it, by the capture loop or by the watchdog.
C9_FatalStoppedOnce ==
    failed_captures >= max_errors => (~running /\ fatal_errors = 1)

\* C10 as claimed: once a watchdog tick has observed the stall, the session
\* is stopped with the "stalled" error.
C10_FirstStallTickStops ==
    stall_warnings >= 1 =>
        (~running /\ \E i \in 1 .. Len(errors) : errors[i] = "stalled")

\* C10 as amended: a watchdog tick that observes the stall of a running
\* session increments the failure counter, and stops the session with the
\* "stalled" error exactly when the incremented counter has reached
\* max_errors; otherwise the session keeps running and no error is emitted.
C10_StallTickCountsThenStops ==
    [][stall_warnings' # stall_warnings =>
         /\ running
         /\ now - last_activity > StallSeconds
         /\ consecutive_errors' = consecutive_errors + 1
         /\ IF consecutive_errors + 1 >= max_errors
            THEN ~running' /\ errors' = Append(errors, "stalled")
            ELSE running' /\ errors' = errors]_vars

\* C10 witness: a watchdog tick has stopped the stalled session.
C10_Witness ==
    /\ stall_warnings >= 1
    /\ ~running
    /\ errors # <<>>
    /\ errors[Len(errors)] = "stalled"

\* C11: a call of stop on a session whose running flag is already false
\* (stopped, or not yet started) changes nothing: the flag stays false, the
\* store, its files, the failure counter, the heartbeat and the positions of
\* the threads are unchanged and no error event is emitted.
C11_StopOnStoppedIsNoop ==
    [][(stop_calls' # stop_calls /\ ~running) =>
         /\ ~running'
         /\ UNCHANGED <<segments, disk, consecutive_errors, last_activity,
                        errors, wd_timer, run_pc, rec_pc, segment_index>>]_vars

\* C11 witness: stop has been called twice on a session that captured
\* segments (running is set only when run begins, so one of the two calls
\* found it false), and the store still holds them.
C11_Witness ==
    /\ stop_calls = 2
    /\ ~running
    /\ segments # <<>>
    /\ run_pc = "finished"

\* C12: from the moment the selection is taken until FFmpeg has finished
\* reading, the file of every selected segment exists: no eviction deletes it.
C12_SelectedFilesKept ==
    clip_pc \in {"selected", "encoding"} =>
        \A s \in Range(clip_segments) : s.index \in disk

\* C13: a status snapshot or a selection is taken only while no push is in
\* progress, so it sees the store wholly before an append or wholly after
\* the eviction that follows it; every snapshot reports duration = segments
\* x segment_length <= max_duration; and the lock is not held while the
\* capture tool runs.
C13_LockedReads ==
    /\ [](status # NoStatus =>
            /\ status.duration = status.segments * segment_length
            /\ status.duration <= status.max_duration)
    /\ [](segment_lock # "none" => rec_pc \in {"locked", "appended"})
    /\ [][(status' # status \/ (clip_pc = "start" /\ clip_pc' # "start")) =>
            /\ segment_lock = "none"
            /\ rec_pc \notin {"locked", "appended"}
            /\ Len(segments) = Min(segment_index, buffer_duration \div segment_length)]_vars
    /\ [][status' # status => status'.segments = Len(segments)]_vars
    /\ [][(clip_pc = "start" /\ clip_pc' # "start") =>
            Range(clip_segments') \subseteq Range(segments)]_vars

\* C13 witness: a push is between its append and its eviction (the store is
\* over its maximum) and the last snapshot is the one taken before the append.
C13_Witness ==
    /\ segment_lock = "recorder"
    /\ rec_pc = "appended"
    /\ prune_continue(segments)
    /\ status # NoStatus
    /\ status.segments = Len(segments) - 1
    /\ status.segments >= 2

clip_failed ==
    /\ clip_pc = "done"
    /\ clip_events # <<>>
    /\ clip_events[Len(clip_events)] # "clip_created"

\* C14: no step of an extraction (and so none of a failing one) modifies the
\* session: the running flag, the store, the failure counter, the heartbeat,
\* the segment files and the positions of the session's threads are as
\* before, so the capture loop goes on.
C14_ExtractionLeavesSession ==
    [][clip_vars' # clip_vars =>
         UNCHANGED <<running, segments, consecutive_errors, last_activity, disk,
                     wd_timer, run_pc, rec_pc, segment_index, errors>>]_vars

\* C14 witness: an extraction that selected segments has failed, the session
\* is running and its store holds a segment pushed after the selection.
C14_Witness ==
    /\ clip_failed
    /\ clip_segments # <<>>
    /\ running
    /\ rec_pc = "recording"
    /\ \E s \in Range(segments) :
         \A c \in Range(clip_segments) : s.index > c.index

\* C15: an extraction that has ended has left no file list behind.
C15_ManifestDeleted ==
    clip_pc = "done" => ~manifest

\* C16: after an extraction that ended with an error event, no file exists
\* at the output path.
C16_NoOutputOnError ==
    clip_failed => output = -1

\* C17: an extraction emits no terminal event before it ends and exactly one
\* (clip_created or an error) when it ends, on every path.
C17_OneTerminalEvent ==
    /\ Len(clip_events) <= 1
    /\ clip_pc = "done" <=> Len(clip_events) = 1
    /\ \A i \in 1 .. Len(clip_events) :
         clip_events[i] \in {"clip_created", "error_no_segments",
                             "error_too_small", "error_ffmpeg_failed",
                             "error_exception"}

\* C17 witness: an extraction whose FFmpeg run left a file that is too small
\* has ended with its one error event.
C17_Witness ==
    /\ clip_pc = "done"
    /\ clip_events = <<"error_too_small">>
    /\ ffmpeg_started

\* C18: clip_created is emitted only if FFmpeg returned 0 and the output
\* file exists and is larger than MinClipBytes; an extraction that ended
\* otherwise has emitted an error.
C18_CompletionOnlyOnGoodOutput ==
    /\ (\E i \in 1 .. Len(clip_events) : clip_events[i] = "clip_created")
         => (clip_rc = 0 /\ output >= 0 /\ output > MinClipBytes)
    /\ (clip_pc = "done" /\ ~(clip_rc = 0 /\ output >= 0 /\ output > MinClipBytes))
         => clip_failed

\* C18 witness: FFmpeg returned 0 and left a file one byte over the minimum;
\* clip_created has been emitted.
C18_Witness ==
    /\ clip_pc = "done"
    /\ clip_rc = 0
    /\ output = MinClipBytes + 1
    /\ clip_events = <<"clip_created">>

\* The events the claim C19 expects of the probe just made.
expected_events(p) ==
    IF p.is_live /\ p.was = "offline" THEN <<[event |-> "live", source |-> p.source]>>
    ELSE IF ~p.is_live /\ p.was = "live" THEN <<[event |-> "offline", source |-> p.source]>>
    ELSE <<>>

\* C19: a probe emits "went live" exactly when it returns live and the
\* source's last-known status was offline, "went offline" exactly when it
\* returns offline and the last-known status was live, and nothing when the
\* status is unchanged or the source has no status yet; no event is emitted
\* except by a probe, and the probe's result becomes the last-known status.
C19_EventsOnTransitions ==
    /\ [][probe'.n # probe.n =>
            /\ probe'.was = stream_status[probe'.source]
            /\ monitor_events' = monitor_events \o expected_events(probe')
            /\ stream_status'[probe'.source] =
                   (IF probe'.is_live THEN "live" ELSE "offline")]_vars
    /\ [][monitor_events' # monitor_events => probe'.n # probe.n]_vars

\* C19 witness: a source was first probed offline (no event), then probed
\* live and then offline again: its events are "went live", "went offline",
\* and the other source, probed three times as well, has none.
C19_Witness ==
    /\ Len(monitor_events) = 2
    /\ monitor_events[1].source = monitor_events[2].source
    /\ monitor_events[1].event = "live"
    /\ monitor_events[2].event = "offline"
    /\ probe.n = MaxProbes

\* C20: a probe whose liveness query raised or timed out leaves the
\* last-known status of every source unchanged and emits no event.
C20_FailedProbeSkipped ==
    [][(probe'.n # probe.n /\ probe'.failed) =>
         /\ stream_status' = stream_status
         /\ monitor_events' = monitor_events]_vars

\* C21: a probe whose query raised does not end the cycle or the loop: the
\* monitor goes on to the next monitored stream of the same cycle (to the
\* wait after the last one) and keeps running; the loop ends only after
\* stop().
C21_FailedProbeContinues ==
    /\ [][probe'.n # probe.n =>
            /\ monitor_pc.at = "probe"
            /\ probe'.source = normalise(monitored_streams[monitor_pc.i])
            /\ monitor_pc' = (IF monitor_pc.i < Len(monitored_streams)
                              THEN [at |-> "probe", i |-> monitor_pc.i + 1]
                              ELSE [at |-> "sleep", i |-> 0])
            /\ monitor_running' = monitor_running]_vars
    /\ [](monitor_pc.at = "finished" => ~monitor_running)

\* C21 witness: the query of the first stream has failed in a later cycle
\* and the monitor, still running, is about to probe the second stream.
C21_Witness ==
    /\ probe.failed
    /\ probe.n = 3
    /\ probe.source = normalise(monitored_streams[1])
    /\ monitor_pc = [at |-> "probe", i |-> 2]
    /\ monitor_running

\* C22: once stop has been called on a started session, the session thread's
\* wait loop "while self.running" finds the flag false, so the thread leaves
\* the loop, runs its teardown and finishes (and a caller in wait() returns).
C22_StopEndsSessionThread ==
    (stop_calls > 0 /\ run_pc = "monitor") => ~running

\* C23: a stop that finds a capture call in flight terminates it: no segment
\* is pushed to the store once stop has returned and the flag is false.
C23_NoPushAfterStop ==
    [][(stop_calls > 0 /\ ~running) => segments' = segments]_vars

\* C24: the running flag is monotonic: once it has been cleared by stop, by
\* the watchdog's fatal stop or by the teardown of run, it is not set again.
C24_RunningMonotonic ==
    [][(~running /\ (stop_calls > 0 \/ run_pc = "finished" \/ fatal_errors > 0))
          => ~running']_vars

\* C25: a watchdog tick that finds the session running with a heartbeat
\* older than StallSeconds adds one to the shared failure counter and stops
\* the session with the "stalled" error if and only if the counter has then
\* reached max_errors; a tick that finds the session not running or the
\* heartbeat fresh changes nothing but the timer's next timeout.
C25_WatchdogTick ==
    /\ [][stall_warnings' # stall_warnings =>
            /\ wd_timer = "timeout"
            /\ running
            /\ now - last_activity > StallSeconds
            /\ stall_warnings' = stall_warnings + 1
            /\ consecutive_errors' = consecutive_errors + 1
            /\ ~running' <=> consecutive_errors' >= max_errors
            /\ errors' = (IF consecutive_errors' >= max_errors
                          THEN Append(errors, "stalled") ELSE errors)
            /\ wd_timer' = (IF consecutive_errors' >= max_errors
                            THEN "stopped" ELSE "waiting")]_vars
    /\ [][(wd_timer = "timeout" /\ wd_timer' = "waiting") =>
            IF running /\ now - last_activity > StallSeconds
            THEN stall_warnings' = stall_warnings + 1
            ELSE UNCHANGED <<running, consecutive_errors, errors, stall_warnings,
                             last_activity, segments, disk, run_pc, rec_pc>>]_vars

\* C25 witness: two stalled ticks have raised the counter to 2 and the
\* session is still running, with no error emitted.
C25_Witness ==
    /\ stall_warnings = 2
    /\ consecutive_errors = 2
    /\ running
    /\ errors = <<>>
    /\ wd_timer = "waiting"

\* C26 as claimed: the capture loop's fatal error "ended" is emitted only
\* after max_errors capture attempts have failed in a row with no successful
\* capture in between.
C26_AbortOnlyAfterThreeFailures ==
    (\E i \in 1 .. Len(errors) : errors[i] = "ended") =>
        failed_captures >= max_errors

\* C26 as amended: a failed capture adds 1 to the counter the loop shares
\* with the watchdog and pushes nothing; the loop ends with the error "ended"
\* exactly when that counter has then reached max_errors, and otherwise goes
\* back to retry; "ended" is emitted by no other step; every successful
\* capture sets the counter to 0.
C26_AbortAtSharedThreshold ==
    /\ [][failed_captures' = failed_captures + 1 =>
            /\ consecutive_errors' = consecutive_errors + 1
            /\ segments' = segments
            /\ segment_index' = segment_index
            /\ IF consecutive_errors' >= max_errors
               THEN /\ errors' = Append(errors, "ended")
                    /\ rec_pc' = "exited"
               ELSE /\ errors' = errors
                    /\ rec_pc' = "top"]_vars
    /\ [][(errors' # errors /\ errors'[Len(errors')] = "ended") =>
            /\ failed_captures' = failed_captures + 1
            /\ consecutive_errors' >= max_errors]_vars
    /\ [][segment_index' = segment_index + 1 => consecutive_errors' = 0]_vars

\* C26 witness: the loop has ended with "ended" after two failed captures,
\* a stalled watchdog tick between them having raised the same counter.
C26_Witness ==
    /\ errors = <<"ended">>
    /\ rec_pc = "exited"
    /\ failed_captures = 2
    /\ stall_warnings = 1
    /\ consecutive_errors = max_errors

\* C29: the segments held in the store carry consecutive, strictly
\* increasing indices, all below the index of the next capture; the index
\* advances by one and only on a successful capture, whose segment is the
\* only one that enters the store, last and with the index before the
\* advance; a failed capture keeps the index, touches no other file than the
\* one of that index and is retried into it.
C29_IndicesAdvanceOnSuccess ==
    /\ [](\A i \in 1 .. Len(segments) - 1 :
             segments[i + 1].index = segments[i].index + 1)
    /\ [](\A i \in 1 .. Len(segments) : segments[i].index < segment_index)
    /\ [][segment_index' # segment_index =>
            /\ rec_pc = "recording"
            /\ segment_index' = segment_index + 1
            /\ failed_captures' = 0
            /\ \A i \in 1 .. Len(segments') :
                   \/ segments'[i] \in Range(segments)
                   \/ i = Len(segments') /\ segments'[i].index = segment_index]_vars
    /\ [][failed_captures' = failed_captures + 1 =>
            /\ rec_pc = "recording"
            /\ segment_index' = segment_index
            /\ segments' = segments
            /\ disk' \ {segment_index} = disk \ {segment_index}]_vars
    /\ [][(rec_pc = "top" /\ rec_pc' = "recording") =>
            segment_index' = segment_index]_vars

\* C29 witness: segments 0 and 1 are held, a capture of index 2 has failed
\* and left a file in its slot, and the retry is recording into index 2.
C29_Witness ==
    /\ rec_pc = "recording"
    /\ failed_captures = 1
    /\ segment_index = 2
    /\ held = {0, 1}
    /\ segment_index \in disk

\* C27: whenever no increment of the failure counter is between its read
\* and its write, the counter equals the number of failed captures and
\* stalled watchdog ticks recorded since the last successful capture.
C27_CounterCountsAll ==
    loaded = [rec |-> -1, wd |-> -1] => consecutive_errors = recorded_errors

\* C28: the store changes only in the branch taken when the capture call
\* reported success and left a file of more than MinSegmentBytes bytes, and
\* a segment that enters carries the index of that capture; an iteration
\* whose capture failed ends with the store and the heartbeat unchanged.
C28_PushOnlyOnGoodCapture ==
    /\ [][segments' # segments =>
            /\ rec_pc = "returned"
            /\ capture.ok
            /\ capture.size > MinSegmentBytes
            /\ \A s \in Range(segments') \ Range(segments) :
                   s.index = segment_index]_vars
    /\ [][(/\ rec_pc = "returned"
           /\ ~(capture.ok /\ capture.size > MinSegmentBytes)
           /\ rec_pc' # rec_pc) =>
            /\ segments' = segments
            /\ last_activity' = last_activity
            /\ segment_index' = segment_index
            /\ failed_captures' = failed_captures + 1]_vars

\* C28 witness: a capture that reported failure but left a file of more
\* than MinSegmentBytes bytes has ended its iteration; the store holds the
\* segment pushed before and the heartbeat is older than the clock.
C28_Witness ==
    /\ rec_pc = "top"
    /\ ~capture.ok
    /\ capture.size = MinSegmentBytes + 1
    /\ failed_captures = 1
    /\ held = {0}
    /\ segment_index = 1
    /\ last_activity < now

\* C30: the timestamp stored with a pushed segment is the time at which the
\* capture call of that segment began.
C30_TimestampIsCaptureStart ==
    [][(rec_pc = "returned" /\ segment_index' = segment_index + 1) =>
          \A s \in Range(segments') :
              s.index = segment_index => s.timestamp = capture.began]_vars

\* C35: once a session has been torn down and the lifetime of its
\* registration has passed, with the cleanup pass that was due at that time
\* over, its buffer directory and the segment files in it are gone, unless
\* the removal itself has raised.
C35_StoppedSessionFilesDestroyed ==
    \A d \in TempDirs :
        (/\ teardown[d] = "registered"
         /\ now > temp_files[d]
         /\ d \notin rmtree_failed) => d \notin on_disk

\* C36: cleanup_expired_files ends and releases the mutex: its thread never
\* waits for the mutex it holds itself (a wait that no step ends, and that
\* keeps every later register_temp_file waiting as well).
C36_CleanupReleasesMutex ==
    ~(cleanup_pc.at = "unregister" /\ mutex = "timer")

C31_ExtractionOnlyReads ==
    /\ [][clip_vars' # clip_vars =>
            /\ segments' = segments
            /\ disk' = disk
            /\ remove_errors' = remove_errors]_vars
    /\ [][clip_segments' # clip_segments =>
            \A i \in 1 .. Len(clip_segments') :
                clip_segments'[i] \in Range(segments')]_vars
    /\ [][(manifest /\ ~manifest') =>
            /\ clip_pc = "encoding"
            /\ clip_pc' = "done"]_vars

\* C31 witness: an extraction has produced its clip and removed its file
\* list; the segments it selected are still in the store and on disk.
C31_Witness ==
    /\ clip_pc = "done"
    /\ clip_events = <<"clip_created">>
    /\ ~manifest
    /\ Len(clip_segments) >= 2
    /\ \A i \in 1 .. Len(clip_segments) :
         /\ clip_segments[i] \in Range(segments)
         /\ clip_segments[i].index \in disk

\* C37: a call of ClipCreator.stop never ends with an exception.
C37_StopNeverRaises == \A c \in Creators : stops[c] # "raised"

\* Reading a line of the file list back: the text between "file '" and the
\* closing quote, each backslash giving the character that follows it.
RECURSIVE unescape(_)
unescape(text) ==
    IF text = <<>> THEN <<>>
    ELSE IF Head(text) = "\\" /\ Len(text) >= 2
         THEN <<text[2]>> \o unescape(SubSeq(text, 3, Len(text)))
         ELSE <<Head(text)>> \o unescape(Tail(text))
listed_file(line) == unescape(SubSeq(line, 2, Len(line) - 1))

\* C32: the file list an extraction writes has one line per selected
\* segment, in the order of the selection, which is ascending by timestamp;
\* the line read back names that segment's file, every selected segment's
\* file is named by exactly one line, and every line names a selected
\* segment's file.
C32_ManifestListsSelection ==
    [][\A c \in Creators :
         (creators[c].pc = "selected" /\ creators'[c].pc = "written") =>
            LET sel == creators[c].segments
                f == file_lists'[creators'[c].file_list_path]
            IN  /\ f.exists
                /\ Len(f.lines) = Len(sel)
                /\ \A i \in 1 .. Len(sel) :
                     /\ Head(f.lines[i]) = "file '"
                     /\ f.lines[i][Len(f.lines[i])] = "'"
                     /\ listed_file(f.lines[i]) = segment_file(temp_dir, sel[i])
                     /\ Cardinality({j \in 1 .. Len(f.lines) :
                            listed_file(f.lines[j]) = segment_file(temp_dir, sel[i])}) = 1
                /\ \A i, j \in 1 .. Len(sel) :
                     i < j => sel[i].timestamp < sel[j].timestamp
                /\ \A j \in 1 .. Len(f.lines) :
                     \E i \in 1 .. Len(sel) :
                        listed_file(f.lines[j]) = segment_file(temp_dir, sel[i])]_vars

\* C32 witness: an extraction has written the file list of two segments
\* whose directory has a backslash and a quote in its path.
C32_Witness ==
    \E c \in Creators :
        /\ creators[c].pc = "written"
        /\ Len(creators[c].segments) = 2
        /\ "'" \in Range(temp_dir)
        /\ "\\" \in Range(temp_dir)
        /\ file_lists[creators[c].file_list_path].writer = c
        /\ Len(file_lists[creators[c].file_list_path].lines) = 2

\* C38: while an extraction has written its file list and its FFmpeg has
\* not yet opened it, the file of that name exists and was last written by
\* this extraction; and the file list an FFmpeg has read was written by the
\* extraction that started it.
C38_OwnManifestOnly ==
    \A c \in Creators :
        /\ (/\ creators[c].pc \in {"written", "encoding"}
            /\ creators[c].child \in {"none", "started"}) =>
              /\ file_lists[creators[c].file_list_path].exists
              /\ file_lists[creators[c].file_list_path].writer = c
        /\ creators[c].read.exists => creators[c].read.writer = c

\* C40: stream_status has entries only for URLs in monitored_streams, and
\* none for a URL remove_stream was called with and that was not added
\* again.
C40_StatusOnlyForMonitored ==
    /\ \A u \in Sources :
         watch.stream_status[u] # "none" =>
            \E i \in 1 .. Len(watch.monitored_streams) :
               normalise(watch.monitored_streams[i]) = u
    /\ \A u \in watch.removed :
         u \in Sources => watch.stream_status[u] = "none"

\* A file larger than the minimum size is left by an invocation tried.
large(size) == size >= 0 /\ size > MinSegmentBytes

\* The parts of C34 on the order of the invocations and on the fallback
\* process: duration_cmd is tried first; simple_cmd is tried only after
\* duration_cmd gave no valid segment and was rejected for unrecognized
\* arguments; a call that has tried simple_cmd returns with its process
\* terminated or killed.
strategies_in_order ==
    /\ attempt.tried \in {<<>>, <<"duration_cmd">>, <<"duration_cmd", "simple_cmd">>}
    /\ Len(attempt.tried) = 2 =>
         /\ ~attempt.o.timeout
         /\ ~(attempt.o.rc = 0 /\ large(attempt.o.size1))
         /\ attempt.o.unrecognized
    /\ attempt.pc = "returned" =>
         IF Len(attempt.tried) = 2
         THEN attempt.proc \in {"terminated", "killed"}
         ELSE attempt.proc = "none"

\* C34 as stated: the invocations are tried in order, the fallback process
\* is terminated or killed, and the call returns True if and only if an
\* invocation it tried has left a file larger than the minimum size.
C34_SucceedsIffLargeFile ==
    /\ strategies_in_order
    /\ attempt.pc = "returned" =>
         (attempt.result = "true" <=>
            \/ large(attempt.o.size1)
            \/ (Len(attempt.tried) = 2 /\ large(attempt.o.size2)))

\* C34 amended: the invocations are tried in order, the fallback process
\* is terminated or killed, and the call returns True if and only if
\* duration_cmd ended in time with return code 0 and left a file larger
\* than the minimum size, or simple_cmd was tried, was terminated and
\* waited for without an exception, and a file larger than the minimum
\* size exists after it.  The return value is that of record_segment.
C34_SucceedsIffStrategyValid ==
    /\ strategies_in_order
    /\ attempt.pc = "returned" =>
         /\ (attempt.result = "true" <=>
               \/ (/\ ~attempt.o.timeout
                   /\ attempt.o.rc = 0
                   /\ large(attempt.o.size1))
               \/ (/\ Len(attempt.tried) = 2
                   /\ ~attempt.o.wait_raises
                   /\ large(attempt.o.size2)))
         /\ (attempt.result = "true") = record_segment(attempt.o).ok
         /\ attempt.size = record_segment(attempt.o).size

\* C34 witness: a call has returned True through simple_cmd after
\* duration_cmd was rejected, the fallback process terminated.
C34_Witness ==
    /\ attempt.pc = "returned"
    /\ attempt.tried = <<"duration_cmd", "simple_cmd">>
    /\ attempt.result = "true"
    /\ attempt.proc = "terminated"
    /\ attempt.o.rc = 1

\* C33: every value emitted through progress_update is in 0 .. 100; a run
\* whose stderr had no position marker has emitted 50 once, as its first
\* value; and a run that has ended with 100 among its values has ended with
\* clip_created.
C33_ProgressInRange ==
    /\ \A i \in 1 .. Len(encode.progress) : encode.progress[i] \in 0 .. 100
    /\ (encode.pc \in {"waited", "done"} /\ ~encode.progress_found) =>
          /\ Len(encode.progress) >= 1
          /\ encode.progress[1] = 50
          /\ \A i \in 2 .. Len(encode.progress) : encode.progress[i] # 50
    /\ (encode.pc = "done"
        /\ \E i \in 1 .. Len(encode.progress) : encode.progress[i] = 100) =>
          encode.events = <<"clip_created">>

====
